---- MODULE Spec2Model ----
(***************************************************************************)
(* A model of the NEPA billing contract (nepa_contract/src/lib.rs) and of  *)
(* its multi-utility registry (nepa_contract/src/multi_utility.rs).        *)
(* with the upgrade subsystem (upgrade_proxy.rs, version_manager.rs,       *)
(* data_migration.rs) and the user registry contract (src/lib.rs).         *)
(*                                                                         *)
(* Every contract entry point is one action.  A Soroban invocation that    *)
(* panics (failed require_auth, failed token transfer) is rolled back by   *)
(* the host, so such a call leaves every variable but `last` unchanged.    *)
(* `last` is a history variable: the entry point called last, its inputs,  *)
(* the values it computed and its result.                                  *)
(*                                                                         *)
(* oracle.rs is not among the source files: the price store is modelled    *)
(* from the specification and from the calls lib.rs and tests.rs make.     *)
(* UtilityMeter has no `region` field although pay_multi_utility_bill      *)
(* reads meter.region; the model gives every meter the region of the       *)
(* provider it was registered for.                                         *)
(***************************************************************************)
EXTENDS Integers, Sequences, FiniteSets, TLC

VARIABLES
    registry_keys,  \* persistent registry entries that exist (UT_PROVS, ...)
    providers,      \* UT_PROVS : provider_id -> UtilityProvider
    configs,        \* UT_CONF  : config_id -> UtilityConfig
    fees,           \* UT_FEES  : fee_id -> UtilityFee
    meters,         \* UT_METERS: meter_id -> UtilityMeter
    versions,       \* UT_VERS  : version_key -> UtilityVersion
    persistent,     \* String-keyed persistent entries: billing records, totals
    oracle_config,  \* OR_CONF (instance storage)
    oracle_admin,   \* the admin initialize_oracle recorded
    price_feeds,    \* feed_id -> PriceFeed
    utility_rates,  \* rate_id -> UtilityRate
    balance,        \* token balances: address -> amount
    now,            \* env.ledger().timestamp()
    payments,       \* number of completed token transfers
    upgrades,       \* config_id -> number of successful upgrade_utility_config calls
    instance,       \* instance storage of the upgrade subsystem: ADMIN, VERSION, ...
    events,         \* the events published by completed invocations, in order
    oracle_cost,    \* OracleCost: total_spent, calls_made, average_cost_per_call
    oracle_reliability, \* OracleReliability: call counters and the score
    user_instance,  \* UserManagement instance storage: DataKey::Admin
    user_persistent,\* UserManagement persistent storage: DataKey -> value
    logged,         \* user -> log_activity calls that succeeded since registration
    last            \* the last call: entry point, inputs, computed values, result

regVars    == <<registry_keys, providers, configs, fees, meters, versions>>
oracleVars == <<oracle_config, oracle_admin, price_feeds, utility_rates>>
userVars   == <<user_instance, user_persistent, logged>>
vars == <<registry_keys, providers, configs, fees, meters, versions, persistent,
          oracle_config, oracle_admin, price_feeds, utility_rates, balance, now,
          payments, upgrades, instance, events, oracle_cost, oracle_reliability,
          user_instance, user_persistent, logged, last>>

(***************************************************************************)
(* Bounds of the model.                                                    *)
(***************************************************************************)
MaxPayments    == 1          \* completed transfers in one behaviour
MaxUpgrades    == 2          \* successful upgrades of one configuration
InitialBalance == 7          \* tokens the payer holds at the start
MaxReliabilityCalls == 6     \* update_reliability calls in one behaviour
MaxCostCalls   == 3          \* accepted track_oracle_cost calls in one behaviour
MaxEvents      == 2          \* events published in one behaviour
MaxActivity    == 2          \* successful log_activity calls of one user
MaxContractUpgrades == 2     \* upgrade_contract calls that wrote the proxy

(***************************************************************************)
(* Program constants.                                                      *)
(***************************************************************************)
DefaultProcessingFee == 1000000
DefaultRating        == 5
SecondsPerHour       == 3600
SecondsPerDay        == 86400

Contract == "contract"       \* env.current_contract_address()
Payer    == "user"
Admin    == "admin"
ProviderAddr == "prov1"
Mallory  == "mallory"        \* an address that is neither admin nor provider

EmptyMap == [k \in {} |-> 0]

MapSet(m, k, v) == [x \in (DOMAIN m) \cup {k} |-> IF x = k THEN v ELSE m[x]]

\* format!("{}_{}", a, b)
Fmt(a, b) == a \o "_" \o b

\* Rust integer division truncates toward zero; the divisors here are positive.
TruncDiv(a, b) == IF a >= 0 THEN a \div b ELSE -((-a) \div b)

RECURSIVE Pow10(_)
Pow10(d) == IF d = 0 THEN 1 ELSE 10 * Pow10(d - 1)

(***************************************************************************)
(* UtilityType and FeeType: the variants in the order of their             *)
(* discriminants 1..8, from_u8 (the match on the wire integer) and to_u8    *)
(* (the discriminant of a variant).                                         *)
(***************************************************************************)
UtilityTypes == <<"Electricity", "Water", "Gas", "Internet", "Waste",
                  "PropertyTax", "Solar", "EVCharging">>

FeeTypes == <<"Processing", "Service", "Maintenance", "Connection",
              "Disconnection", "Reconnection", "Inspection", "Emergency">>

\* A conversion that falls back to the first variant instead of failing.
UtilityType_from_u8_lenient(v) ==
    [ok |-> TRUE, tag |-> UtilityTypes[IF v \in 1..8 THEN v ELSE 1]]

UtilityType_from_u8(v) ==
    IF v \in 1..8 THEN [ok |-> TRUE, tag |-> UtilityTypes[v]]
    ELSE [ok |-> FALSE, err |-> "Invalid utility type"]

UtilityType_to_u8(tag) == CHOOSE v \in 1..8 : UtilityTypes[v] = tag

FeeType_from_u8(v) ==
    IF v \in 1..8 THEN [ok |-> TRUE, tag |-> FeeTypes[v]]
    ELSE [ok |-> FALSE, err |-> "Invalid fee type"]

FeeType_to_u8(tag) == CHOOSE v \in 1..8 : FeeTypes[v] = tag

\* Address::require_auth: the address must have signed the invocation.
require_auth(addr, signer) == addr = signer

(***************************************************************************)
(* Registry point lookups: Option, absent when the entry or the key is     *)
(* missing.                                                                *)
(***************************************************************************)
None == [some |-> FALSE]
Some(v) == [some |-> TRUE, v |-> v]

get_provider(provider_id) ==
    IF "UT_PROVS" \in registry_keys /\ provider_id \in DOMAIN providers
    THEN Some(providers[provider_id]) ELSE None

get_utility_config(config_id) ==
    IF "UT_CONF" \in registry_keys /\ config_id \in DOMAIN configs
    THEN Some(configs[config_id]) ELSE None

get_meter(meter_id) ==
    IF "UT_METERS" \in registry_keys /\ meter_id \in DOMAIN meters
    THEN Some(meters[meter_id]) ELSE None

get_utility_fee(fee_id) ==
    IF "UT_FEES" \in registry_keys /\ fee_id \in DOMAIN fees
    THEN Some(fees[fee_id]) ELSE None

\* OracleManager::get_price_feed: a point lookup in the price store.
get_price_feed(feed_id) ==
    IF feed_id \in DOMAIN price_feeds THEN Some(price_feeds[feed_id]) ELSE None

\* OracleManager::get_utility_rate
get_utility_rate(rate_id) ==
    IF rate_id \in DOMAIN utility_rates THEN Some(utility_rates[rate_id]) ELSE None

(***************************************************************************)
(* Registry operations (multi_utility.rs).  Each action is the whole       *)
(* handler: the checks in source order, then the writes.                   *)
(***************************************************************************)

\* A call that did not go through: nothing but `last` changes.
Rejected(op, result) ==
    /\ last' = [op |-> op, result |-> result]
    /\ UNCHANGED <<registry_keys, providers, configs, fees, meters, versions,
                   persistent, oracle_config, oracle_admin, price_feeds, utility_rates,
                   balance, now, payments, upgrades,
                   instance, events, oracle_cost, oracle_reliability, userVars>>

\* A call that did not go through, recorded with its arguments.
Refused(call) ==
    /\ last' = call
    /\ UNCHANGED <<registry_keys, providers, configs, fees, meters, versions,
                   persistent, oracle_config, oracle_admin, price_feeds, utility_rates,
                   balance, now, payments, upgrades,
                   instance, events, oracle_cost, oracle_reliability, userVars>>

\* MultiUtilityManager::initialize
initialize_multi_utility(signer, admin) ==
    IF ~require_auth(admin, signer) THEN Rejected("initialize", "panic")
    ELSE
    /\ registry_keys' = {"UT_TYPES", "UT_PROVS", "UT_CONF", "UT_FEES",
                         "UT_METERS", "UT_VERS"}
    /\ providers' = EmptyMap
    /\ configs' = EmptyMap
    /\ fees' = EmptyMap
    /\ meters' = EmptyMap
    /\ versions' = EmptyMap
    /\ last' = [op |-> "initialize", result |-> "Ok", signer |-> signer]
    /\ UNCHANGED <<persistent, oracle_config, oracle_admin, price_feeds, utility_rates,
                   balance, now, payments, upgrades,
                   instance, events, oracle_cost, oracle_reliability, userVars>>

NewProvider(provider_id, name, provider_address, type_tag, region) ==
    [provider_id |-> provider_id, name |-> name, address |-> provider_address,
     utility_type |-> type_tag, region |-> region, is_active |-> TRUE,
     registration_date |-> now, rating |-> DefaultRating,
     total_transactions |-> 0]

\* register_provider without the existence check.
register_provider_overwriting(signer, admin, provider_id, utility_type) ==
    IF ~require_auth(admin, signer) THEN "panic"
    ELSE IF ~UtilityType_from_u8(utility_type).ok THEN "Invalid utility type"
    ELSE "Ok"

register_provider_result(signer, admin, provider_id, utility_type) ==
    IF ~require_auth(admin, signer) THEN "panic"
    ELSE IF ~UtilityType_from_u8(utility_type).ok THEN "Invalid utility type"
    ELSE IF provider_id \in DOMAIN providers THEN "Provider already registered"
    ELSE "Ok"

register_provider(signer, admin, provider_id, name, provider_address, utility_type, region) ==
    LET res == register_provider_result(signer, admin, provider_id, utility_type)
        call == [op |-> "register_provider", result |-> res, signer |-> signer,
                 admin |-> admin, provider_id |-> provider_id,
                 utility_type |-> utility_type]
    IN  IF res # "Ok" THEN Refused(call)
        ELSE
        /\ providers' = MapSet(providers, provider_id,
                 NewProvider(provider_id, name, provider_address,
                             UtilityType_from_u8(utility_type).tag, region))
        /\ registry_keys' = registry_keys \cup {"UT_PROVS"}
        /\ last' = call
        /\ UNCHANGED <<configs, fees, meters, versions, persistent,
                       oracle_config, oracle_admin, price_feeds, utility_rates, balance, now,
                       payments, upgrades,
                   instance, events, oracle_cost, oracle_reliability, userVars>>

DefaultLateFee(grace_period_days) ==
    [flat_fee |-> 1000000, percentage_fee |-> 500, max_fee |-> 10000000,
     grace_period_days |-> grace_period_days, compound_daily |-> FALSE]

\* The UtilityConfig add_utility_config builds.
NewConfig(type_tag, provider_id, region, base_rate, currency, decimals, grace_period_days, minimum_payment, maximum_payment) ==
    [utility_type |-> type_tag, provider_id |-> provider_id, region |-> region,
     base_rate |-> base_rate, currency |-> currency, decimals |-> decimals,
     tier_rates |-> <<>>, time_of_use_rates |-> <<>>, tax_rates |-> <<>>,
     late_fee_config |-> DefaultLateFee(grace_period_days),
     minimum_payment |-> minimum_payment, maximum_payment |-> maximum_payment,
     is_active |-> TRUE, version |-> 1, last_updated |-> now]

\* add_utility_config without the check that the provider is active.
add_utility_config_any_status(signer, admin, utility_type, provider_id) ==
    IF ~require_auth(admin, signer) THEN "panic"
    ELSE IF ~UtilityType_from_u8(utility_type).ok THEN "Invalid utility type"
    ELSE IF "UT_PROVS" \notin registry_keys THEN "No providers registered"
    ELSE IF provider_id \notin DOMAIN providers THEN "Provider not found"
    ELSE IF providers[provider_id].utility_type
              # UtilityType_from_u8(utility_type).tag THEN "Utility type mismatch"
    ELSE "Ok"

add_utility_config_result(signer, admin, utility_type, provider_id) ==
    IF ~require_auth(admin, signer) THEN "panic"
    ELSE IF ~UtilityType_from_u8(utility_type).ok THEN "Invalid utility type"
    ELSE IF "UT_PROVS" \notin registry_keys THEN "No providers registered"
    ELSE IF provider_id \notin DOMAIN providers THEN "Provider not found"
    ELSE IF ~providers[provider_id].is_active THEN "Provider is not active"
    ELSE IF providers[provider_id].utility_type
              # UtilityType_from_u8(utility_type).tag THEN "Utility type mismatch"
    ELSE "Ok"

\* The configuration map after add_utility_config stored `config`: configs.set
\* inserts or overwrites, there is no existence check.
ConfigsAfterAdd(config_id, config) == MapSet(configs, config_id, config)

add_utility_config(signer, admin, config_id, utility_type, provider_id, region, base_rate, currency, decimals, grace_period_days, minimum_payment, maximum_payment) ==
    LET res == add_utility_config_result(signer, admin, utility_type, provider_id)
        call == [op |-> "add_utility_config", result |-> res, signer |-> signer,
                 admin |-> admin, config_id |-> config_id,
                 utility_type |-> utility_type, provider_id |-> provider_id,
                 existed |-> config_id \in DOMAIN configs,
                 old_version |-> IF config_id \in DOMAIN configs
                                 THEN configs[config_id].version ELSE 0]
    IN  IF res # "Ok" THEN Refused([changed |-> FALSE] @@ call)
        ELSE
        /\ configs' = ConfigsAfterAdd(config_id,
                 NewConfig(UtilityType_from_u8(utility_type).tag, provider_id,
                           region, base_rate, currency, decimals,
                           grace_period_days, minimum_payment, maximum_payment))
        /\ registry_keys' = registry_keys \cup {"UT_CONF"}
        /\ last' = [changed |-> configs' # configs] @@ call
        /\ UNCHANGED <<providers, fees, meters, versions, persistent,
                       oracle_config, oracle_admin, price_feeds, utility_rates, balance, now,
                       payments, upgrades,
                   instance, events, oracle_cost, oracle_reliability, userVars>>

\* register_meter without the comparison with the provider's address.
register_meter_any_caller(signer, provider_address, meter_id, utility_type, provider_id) ==
    IF ~require_auth(provider_address, signer) THEN "panic"
    ELSE IF ~UtilityType_from_u8(utility_type).ok THEN "Invalid utility type"
    ELSE IF "UT_PROVS" \notin registry_keys THEN "No providers registered"
    ELSE IF provider_id \notin DOMAIN providers THEN "Provider not found"
    ELSE IF ~providers[provider_id].is_active THEN "Provider is not active"
    ELSE IF meter_id \in DOMAIN meters THEN "Meter already registered"
    ELSE "Ok"

register_meter_result(signer, provider_address, meter_id, utility_type, provider_id) ==
    IF ~require_auth(provider_address, signer) THEN "panic"
    ELSE IF ~UtilityType_from_u8(utility_type).ok THEN "Invalid utility type"
    ELSE IF "UT_PROVS" \notin registry_keys THEN "No providers registered"
    ELSE IF provider_id \notin DOMAIN providers THEN "Provider not found"
    ELSE IF providers[provider_id].address # provider_address
         THEN "Unauthorized provider"
    ELSE IF ~providers[provider_id].is_active THEN "Provider is not active"
    ELSE IF meter_id \in DOMAIN meters THEN "Meter already registered"
    ELSE "Ok"

register_meter(signer, provider_address, meter_id, utility_type, provider_id, customer_address, is_smart_meter) ==
    LET res == register_meter_result(signer, provider_address, meter_id,
                                     utility_type, provider_id)
        call == [op |-> "register_meter", result |-> res, signer |-> signer,
                 provider_address |-> provider_address, meter_id |-> meter_id,
                 utility_type |-> utility_type, provider_id |-> provider_id]
    IN  IF res # "Ok" THEN Refused(call)
        ELSE
        /\ meters' = MapSet(meters, meter_id,
                [meter_id |-> meter_id,
                 utility_type |-> UtilityType_from_u8(utility_type).tag,
                 provider_id |-> provider_id,
                 region |-> providers[provider_id].region,
                 customer_address |-> customer_address,
                 installation_date |-> now, last_reading |-> 0,
                 last_reading_date |-> now, is_active |-> TRUE,
                 is_smart_meter |-> is_smart_meter])
        /\ registry_keys' = registry_keys \cup {"UT_METERS"}
        /\ last' = call
        /\ UNCHANGED <<providers, configs, fees, versions, persistent,
                       oracle_config, oracle_admin, price_feeds, utility_rates, balance, now,
                       payments, upgrades,
                   instance, events, oracle_cost, oracle_reliability, userVars>>

add_utility_fee_result(signer, admin, utility_type, provider_id, fee_type) ==
    IF ~require_auth(admin, signer) THEN "panic"
    ELSE IF ~UtilityType_from_u8(utility_type).ok THEN "Invalid utility type"
    ELSE IF ~FeeType_from_u8(fee_type).ok THEN "Invalid fee type"
    ELSE IF "UT_PROVS" \notin registry_keys THEN "No providers registered"
    ELSE IF provider_id \notin DOMAIN providers THEN "Provider not found"
    ELSE "Ok"

add_utility_fee(signer, admin, fee_id, utility_type, provider_id, fee_type, fee_amount, fee_percentage, is_percentage) ==
    LET res == add_utility_fee_result(signer, admin, utility_type, provider_id,
                                      fee_type)
        call == [op |-> "add_utility_fee", result |-> res, signer |-> signer,
                 admin |-> admin, fee_id |-> fee_id,
                 utility_type |-> utility_type, provider_id |-> provider_id,
                 fee_type |-> fee_type]
    IN  IF res # "Ok" THEN Refused(call)
        ELSE
        /\ fees' = MapSet(fees, fee_id,
                [fee_id |-> fee_id,
                 utility_type |-> UtilityType_from_u8(utility_type).tag,
                 provider_id |-> provider_id,
                 fee_type |-> FeeType_from_u8(fee_type).tag,
                 fee_amount |-> fee_amount, fee_percentage |-> fee_percentage,
                 is_percentage |-> is_percentage, is_active |-> TRUE,
                 created_at |-> now])
        /\ registry_keys' = registry_keys \cup {"UT_FEES"}
        /\ last' = call
        /\ UNCHANGED <<providers, configs, meters, versions, persistent,
                       oracle_config, oracle_admin, price_feeds, utility_rates, balance, now,
                       payments, upgrades,
                   instance, events, oracle_cost, oracle_reliability, userVars>>

update_provider_status_result(signer, admin, provider_id) ==
    IF ~require_auth(admin, signer) THEN "panic"
    ELSE IF "UT_PROVS" \notin registry_keys THEN "No providers registered"
    ELSE IF provider_id \notin DOMAIN providers THEN "Provider not found"
    ELSE "Ok"

update_provider_status(signer, admin, provider_id, is_active) ==
    LET res == update_provider_status_result(signer, admin, provider_id)
        call == [op |-> "update_provider_status", result |-> res,
                 signer |-> signer, admin |-> admin,
                 provider_id |-> provider_id, is_active |-> is_active]
    IN  IF res # "Ok" THEN Refused(call)
        ELSE
        /\ providers' = [providers EXCEPT ![provider_id].is_active = is_active]
        /\ last' = call
        /\ UNCHANGED <<registry_keys, configs, fees, meters, versions,
                       persistent, oracle_config, oracle_admin, price_feeds, utility_rates,
                       balance, now, payments, upgrades,
                   instance, events, oracle_cost, oracle_reliability, userVars>>

\* Map iteration visits the entries in the order of their keys; the provider
\* ids the inputs use, in that order.
ProviderKeyOrder == <<"p1", "p2">>

\* The filter of the scan: type, region and the active flag.
ProviderMatches(provider, type_tag, region) ==
    /\ provider.utility_type = type_tag
    /\ provider.region = region
    /\ provider.is_active

\* The loop over providers.iter() from entry i on: every matching entry is
\* pushed to the back of the result.
RECURSIVE ScanProviders(_, _, _)
ScanProviders(i, type_tag, region) ==
    IF i > Len(ProviderKeyOrder) THEN <<>>
    ELSE LET id == ProviderKeyOrder[i]
             rest == ScanProviders(i + 1, type_tag, region)
         IN  IF id \in DOMAIN providers
                /\ ProviderMatches(providers[id], type_tag, region)
             THEN <<providers[id]>> \o rest
             ELSE rest

list_providers_result(utility_type) ==
    IF ~UtilityType_from_u8(utility_type).ok THEN "Invalid utility type"
    ELSE IF "UT_PROVS" \notin registry_keys THEN "No providers registered"
    ELSE "Ok"

\* MultiUtilityManager::list_providers_by_type_and_region: a query; the
\* active providers of the type and region, in iteration order.
list_providers_by_type_and_region(utility_type, region) ==
    LET result == list_providers_result(utility_type)
    IN  Refused([op |-> "list_providers_by_type_and_region", result |-> result,
                 utility_type |-> utility_type, region |-> region,
                 found |-> IF result # "Ok" THEN <<>>
                           ELSE ScanProviders(1, UtilityType_from_u8(utility_type).tag,
                                              region)])

\* The point lookups as calls: the answer is recorded, nothing is written.
get_provider_call(provider_id) ==
    Refused([op |-> "get_provider", result |-> "Ok", key |-> provider_id,
             value |-> get_provider(provider_id)])

get_utility_config_call(config_id) ==
    Refused([op |-> "get_utility_config", result |-> "Ok", key |-> config_id,
             value |-> get_utility_config(config_id)])

get_meter_call(meter_id) ==
    Refused([op |-> "get_meter", result |-> "Ok", key |-> meter_id,
             value |-> get_meter(meter_id)])

get_utility_fee_call(fee_id) ==
    Refused([op |-> "get_utility_fee", result |-> "Ok", key |-> fee_id,
             value |-> get_utility_fee(fee_id)])

upgrade_utility_config_result(signer, admin, config_id) ==
    IF ~require_auth(admin, signer) THEN "panic"
    ELSE IF "UT_CONF" \notin registry_keys THEN "No configurations found"
    ELSE IF config_id \notin DOMAIN configs THEN "Configuration not found"
    ELSE "Ok"

\* The version record upgrade_utility_config stores for `old_config`.
NewVersionRecord(old_config) ==
    [utility_type |-> old_config.utility_type,
     version |-> old_config.version + 1,
     config_hash |-> "hash_placeholder",
     deployment_date |-> now, is_active |-> TRUE,
     migration_required |-> TRUE,
     description |-> "Configuration upgrade"]

\* A replacement that trusts the version the caller sent.
UpgradedConfigAsSent(old_config, new_config) ==
    [new_config EXCEPT !.last_updated = now]

\* The live configuration upgrade_utility_config stores.
UpgradedConfig(old_config, new_config) ==
    [new_config EXCEPT !.version = old_config.version + 1,
                       !.last_updated = now]

upgrade_utility_config(signer, admin, config_id, new_config) ==
    LET res == upgrade_utility_config_result(signer, admin, config_id)
        call == [op |-> "upgrade_utility_config", result |-> res,
                 signer |-> signer, admin |-> admin, config_id |-> config_id,
                 new_config |-> new_config]
    IN  IF res # "Ok" THEN Refused(call)
        ELSE
        LET old_config == configs[config_id]
            version == NewVersionRecord(old_config)
            version_key == Fmt(config_id, ToString(version.version))
        IN
        /\ versions' = MapSet(versions, version_key, version)
        /\ configs' = MapSet(configs, config_id,
                             UpgradedConfig(old_config, new_config))
        /\ registry_keys' = registry_keys \cup {"UT_VERS"}
        /\ last' = [existed |-> TRUE, changed |-> configs' # configs,
                    old_version |-> old_config.version,
                    old_utility_type |-> old_config.utility_type,
                    new_key |-> version_key \notin DOMAIN versions] @@ call
        /\ upgrades' = MapSet(upgrades, config_id,
                              IF config_id \in DOMAIN upgrades
                              THEN upgrades[config_id] + 1 ELSE 1)
        /\ UNCHANGED <<providers, fees, meters, persistent, oracle_config, oracle_admin,
                       price_feeds, utility_rates, balance, now, payments,
                   instance, events, oracle_cost, oracle_reliability, userVars>>

(***************************************************************************)
(* The billing pipeline of pay_multi_utility_bill (lib.rs), step by step.  *)
(***************************************************************************)

\* Step 5: the tiers are scanned in stored order; the first tier whose range
\* contains the consumption replaces the base amount and ends the scan.
RECURSIVE ScanTiers(_, _, _, _)
ScanTiers(tier_rates, i, consumption, base_amount) ==
    IF i > Len(tier_rates) THEN base_amount
    ELSE IF consumption >= tier_rates[i].min_units
            /\ consumption <= tier_rates[i].max_units
         THEN consumption * tier_rates[i].rate_per_unit
         ELSE ScanTiers(tier_rates, i + 1, consumption, base_amount)

\* A scan without the break: the last tier containing the consumption wins.
RECURSIVE ScanTiersNoBreak(_, _, _, _)
ScanTiersNoBreak(tier_rates, i, consumption, base_amount) ==
    IF i > Len(tier_rates) THEN base_amount
    ELSE ScanTiersNoBreak(tier_rates, i + 1, consumption,
             IF consumption >= tier_rates[i].min_units
                /\ consumption <= tier_rates[i].max_units
             THEN consumption * tier_rates[i].rate_per_unit
             ELSE base_amount)

TierBaseLastMatch(config, consumption) ==
    ScanTiersNoBreak(config.tier_rates, 1, consumption,
                     consumption * config.base_rate)

\* Steps 4 and 5: base amount after the tier override.
TierBase(config, consumption) ==
    ScanTiers(config.tier_rates, 1, consumption, consumption * config.base_rate)

current_hour(t) == (t \div SecondsPerHour) % 24
current_day_of_week(t) == (t \div SecondsPerDay) % 7

\* A window test that forgets the weekday.
TouMatchesAnyDay(tou_rate, t) ==
    /\ current_hour(t) >= tou_rate.start_hour
    /\ current_hour(t) <= tou_rate.end_hour

TouMatches(tou_rate, t) ==
    /\ current_hour(t) >= tou_rate.start_hour
    /\ current_hour(t) <= tou_rate.end_hour
    /\ current_day_of_week(t) \in tou_rate.days_of_week

\* Step 6: the first matching time-of-use rule scales the base amount.
RECURSIVE ScanTou(_, _, _, _)
ScanTou(time_of_use_rates, i, t, base_amount) ==
    IF i > Len(time_of_use_rates) THEN base_amount
    ELSE IF TouMatches(time_of_use_rates[i], t)
         THEN TruncDiv(base_amount * time_of_use_rates[i].rate_multiplier, 100)
         ELSE ScanTou(time_of_use_rates, i + 1, t, base_amount)

TouBase(config, base_amount, t) == ScanTou(config.time_of_use_rates, 1, t, base_amount)

\* Step 7: every configured tax is a percentage of the base amount.
RECURSIVE SumTaxes(_, _, _)
SumTaxes(tax_rates, i, base_amount) ==
    IF i > Len(tax_rates) THEN 0
    ELSE TruncDiv(base_amount * tax_rates[i].rate_percentage, 100)
         + SumTaxes(tax_rates, i + 1, base_amount)

TaxAmount(config, base_amount) == SumTaxes(config.tax_rates, 1, base_amount)

\* Step 8: the fee is the default processing fee whenever fees are requested;
\* the registered fees are not read.
FeeAmount(apply_fees) == IF apply_fees THEN DefaultProcessingFee ELSE 0

LookupFeed(feed_store, feed_id) ==
    IF feed_id \in DOMAIN feed_store THEN Some(feed_store[feed_id]) ELSE None

\* A conversion that applies the configuration currency's USD feed whenever
\* the store holds one, whatever currency was requested.
ConvertWheneverFeed(config, currency, subtotal, feed_store) ==
    LET price_feed == LookupFeed(feed_store, Fmt(config.currency, "USD"))
    IN  IF price_feed.some
        THEN [ok |-> TRUE, used_feed |-> TRUE,
              amount |-> TruncDiv(subtotal * price_feed.v.price,
                                  Pow10(price_feed.v.decimals))]
        ELSE [ok |-> config.currency = currency, amount |-> subtotal,
              used_feed |-> FALSE]

\* Step 10: conversion through the feed "<config currency>_<currency>" when the
\* currencies differ.  The feed's age and reliability are not looked at.
ConvertAmount(config, currency, subtotal, feed_store) ==
    IF config.currency # currency
    THEN LET price_feed == LookupFeed(feed_store, Fmt(config.currency, currency))
         IN  IF ~price_feed.some THEN [ok |-> FALSE, amount |-> 0, used_feed |-> FALSE]
             ELSE [ok |-> TRUE, used_feed |-> TRUE,
                   amount |-> TruncDiv(subtotal * price_feed.v.price,
                                       Pow10(price_feed.v.decimals))]
    ELSE [ok |-> TRUE, amount |-> subtotal, used_feed |-> FALSE]

\* Limits with strict comparisons: the boundary values are turned away.
LimitCheckStrict(config, final_amount) ==
    IF final_amount <= config.minimum_payment THEN "Amount below minimum payment"
    ELSE IF final_amount >= config.maximum_payment
         THEN "Amount exceeds maximum payment"
    ELSE "Ok"

\* Step 11: the payment limits of the configuration.
LimitCheck(config, final_amount) ==
    IF final_amount < config.minimum_payment THEN "Amount below minimum payment"
    ELSE IF final_amount > config.maximum_payment
         THEN "Amount exceeds maximum payment"
    ELSE "Ok"

\* token::Client::transfer panics on a negative amount or a short balance.
TransferOk(bal, from, amount) == amount >= 0 /\ bal[from] >= amount

\* Steps 9 and 10: subtotal and converted amount.
BillTotal(config, tier_base, base_amount, tax_amount, fee_amount, conv) ==
    [tier_base |-> tier_base, base_amount |-> base_amount,
     tax_amount |-> tax_amount, fee_amount |-> fee_amount,
     subtotal |-> base_amount + tax_amount + fee_amount, conv_ok |-> conv.ok,
     used_feed |-> conv.used_feed, final_amount |-> conv.amount]

BillAfterFees(config, tier_base, base_amount, tax_amount, fee_amount, currency, feed_store) ==
    BillTotal(config, tier_base, base_amount, tax_amount, fee_amount,
              ConvertAmount(config, currency,
                            base_amount + tax_amount + fee_amount, feed_store))

BillAfterBase(config, tier_base, base_amount, currency, apply_fees, feed_store) ==
    BillAfterFees(config, tier_base, base_amount, TaxAmount(config, base_amount),
                  FeeAmount(apply_fees), currency, feed_store)

BillAfterTier(config, tier_base, currency, apply_fees, t, feed_store) ==
    BillAfterBase(config, tier_base, TouBase(config, tier_base, t), currency,
                  apply_fees, feed_store)

\* Steps 4 to 10 for a resolved configuration, each step's value handed on to
\* the next.
Bill(config, consumption, currency, apply_fees, t, feed_store) ==
    BillAfterTier(config, TierBase(config, consumption), currency, apply_fees, t,
                  feed_store)

NoBill == [tier_base |-> 0, base_amount |-> 0, tax_amount |-> 0, fee_amount |-> 0,
           subtotal |-> 0, conv_ok |-> FALSE, used_feed |-> FALSE,
           final_amount |-> 0]

\* The checks of the call in source order.
PayMultiResult(signer, from, meter, config, bill, bal) ==
    IF ~require_auth(from, signer) THEN "panic: auth"
    ELSE IF ~meter.some THEN "Meter not found"
    ELSE IF ~meter.v.is_active THEN "Meter is not active"
    ELSE IF ~config.some THEN "Utility configuration not found"
    ELSE IF ~config.v.is_active THEN "Utility configuration is not active"
    ELSE IF ~bill.conv_ok THEN "Exchange rate not available"
    ELSE IF LimitCheck(config.v, bill.final_amount) # "Ok"
         THEN LimitCheck(config.v, bill.final_amount)
    ELSE IF ~TransferOk(bal, from, bill.final_amount) THEN "panic: transfer"
    ELSE "Ok"

PricedResults == {"Exchange rate not available", "Amount below minimum payment",
                  "Amount exceeds maximum payment", "panic: transfer", "Ok"}

PayMultiPack(signer, result, config_id, bill) ==
    [signer |-> signer, result |-> result, config_id |-> config_id,
     priced |-> result \in PricedResults, bill |-> bill]

PayMultiWith(signer, from, meter, config_id, config, bill, bal) ==
    PayMultiPack(signer, PayMultiResult(signer, from, meter, config, bill, bal),
                 config_id, bill)

PayMultiAt(signer, from, meter, config_id, consumption, currency, apply_fees, feed_store, bal) ==
    PayMultiWith(signer, from, meter, config_id, get_utility_config(config_id),
                 IF get_utility_config(config_id).some
                 THEN Bill(get_utility_config(config_id).v, consumption,
                           currency, apply_fees, now, feed_store)
                 ELSE NoBill,
                 bal)

\* The whole call up to the commit: result, configuration used, amounts.
\* feed_store and bal are the price store and the balances the call reads.
PayMultiOutcome(signer, from, meter_id, consumption, currency, apply_fees, feed_store, bal) ==
    PayMultiAt(signer, from, get_meter(meter_id),
               IF get_meter(meter_id).some
               THEN Fmt(get_meter(meter_id).v.provider_id,
                        get_meter(meter_id).v.region)
               ELSE "",
               consumption, currency, apply_fees, feed_store, bal)

\* The balances after the transfer of step 12.
BalanceAfterTransfer(result, from, amount) ==
    IF result = "Ok"
    THEN [a \in DOMAIN balance |->
            balance[a] - (IF a = from THEN amount ELSE 0)
                       + (IF a = Contract THEN amount ELSE 0)]
    ELSE balance

\* Step 13: the billing record, written once every check and the transfer
\* have gone through.
RecordsAfterPay(result, billing_key, billing_data) ==
    IF result = "Ok" THEN MapSet(persistent, billing_key, billing_data)
    ELSE persistent

\* A count taken as soon as the amount is known, before the limits and the
\* transfer.
ProvidersAfterPayEarly(result, provider_id) ==
    IF result \in PricedResults /\ provider_id \in DOMAIN providers
    THEN [providers EXCEPT ![provider_id].total_transactions = @ + 1]
    ELSE providers

\* A payment that leaves the provider's count alone.
ProvidersAfterPayUncounted(result, provider_id) == providers

\* Step 14: the provider's transaction count.
ProvidersAfterPay(result, provider_id) ==
    IF result = "Ok" /\ provider_id \in DOMAIN providers
    THEN [providers EXCEPT ![provider_id].total_transactions = @ + 1]
    ELSE providers

MultiBillingData(out, consumption, meter) ==
    [kind |-> "multi",
     data |-> <<consumption, out.bill.base_amount, out.bill.tax_amount,
                out.bill.fee_amount, out.bill.final_amount,
                IF meter.some THEN UtilityType_to_u8(meter.v.utility_type) ELSE 0,
                IF out.result = "Ok" THEN configs[out.config_id].version ELSE 0>>]

\* Steps 12 to 14 for the outcome `out` of the checks.
PayMultiCommit(out, from, meter_id, meter, consumption, currency, apply_fees) ==
    /\ out.result = "Ok" => payments < MaxPayments
    /\ balance' = BalanceAfterTransfer(out.result, from, out.bill.final_amount)
    /\ persistent' = RecordsAfterPay(out.result, Fmt(meter_id, ToString(now)),
                                     MultiBillingData(out, consumption, meter))
    /\ providers' = ProvidersAfterPay(out.result,
                        IF meter.some THEN meter.v.provider_id ELSE "")
    /\ payments' = IF out.result = "Ok" THEN payments + 1 ELSE payments
    /\ last' = [op |-> "pay_multi_utility_bill", result |-> out.result,
                signer |-> out.signer, from |-> from, meter_id |-> meter_id,
                consumption |-> consumption, currency |-> currency,
                apply_fees |-> apply_fees, config_id |-> out.config_id,
                priced |-> out.priced, bill |-> out.bill,
                feed_id |-> IF out.bill.used_feed
                            THEN Fmt(configs[out.config_id].currency, currency)
                            ELSE "",
                rate_id |-> "", timestamp |-> now, balance_before |-> balance]
    /\ UNCHANGED <<registry_keys, configs, fees, meters, versions, oracle_config,
                   oracle_admin, price_feeds, utility_rates, now, upgrades,
                   instance, events, oracle_cost, oracle_reliability, userVars>>

pay_multi_utility_bill(signer, from, meter_id, consumption, currency, apply_fees) ==
    PayMultiCommit(PayMultiOutcome(signer, from, meter_id, consumption, currency,
                                   apply_fees, price_feeds, balance),
                   from, meter_id, get_meter(meter_id), consumption, currency,
                   apply_fees)

(***************************************************************************)
(* The price store (OracleManager).                                        *)
(***************************************************************************)

\* The trackers as initialize_oracle leaves them: nothing spent, no call
\* made, and the neutral score.
NeutralScore == 50

NewOracleCost == [total_spent |-> 0, calls_made |-> 0, average_cost_per_call |-> 0]

NewOracleReliability ==
    [total_calls |-> 0, successful_calls |-> 0, failed_calls |-> 0,
     score |-> NeutralScore]

\* OracleManager::add_price_feed: the admin stores or replaces a feed.
add_price_feed(signer, admin, feed_id, price_feed) ==
    IF ~require_auth(admin, signer) \/ admin # oracle_admin
    THEN Rejected("add_price_feed", "panic: auth")
    ELSE
    /\ price_feeds' = MapSet(price_feeds, feed_id, price_feed)
    /\ last' = [op |-> "add_price_feed", result |-> "Ok", feed_id |-> feed_id]
    /\ UNCHANGED <<registry_keys, providers, configs, fees, meters, versions,
                   persistent, oracle_config, oracle_admin, utility_rates,
                   balance, now, payments, upgrades,
                   instance, events, oracle_cost, oracle_reliability, userVars>>

\* OracleManager::add_utility_rate: the admin stores or replaces a rate.
add_utility_rate(signer, admin, rate_id, utility_rate) ==
    IF ~require_auth(admin, signer) \/ admin # oracle_admin
    THEN Rejected("add_utility_rate", "panic: auth")
    ELSE
    /\ utility_rates' = MapSet(utility_rates, rate_id, utility_rate)
    /\ last' = [op |-> "add_utility_rate", result |-> "Ok", rate_id |-> rate_id]
    /\ UNCHANGED <<registry_keys, providers, configs, fees, meters, versions,
                   persistent, oracle_config, oracle_admin, price_feeds,
                   balance, now, payments, upgrades,
                   instance, events, oracle_cost, oracle_reliability, userVars>>

\* An update that takes any timestamp.
update_price_feed_unchecked(feed_id, timestamp) ==
    IF feed_id \notin DOMAIN price_feeds THEN "Price feed not found"
    ELSE IF ~oracle_config.some THEN "Oracle not initialized"
    ELSE "Ok"

\* OracleManager::update_price_feed: anyone may refresh an existing feed; a
\* timestamp more than max_age_seconds behind the stored one is refused.
update_price_feed_result(feed_id, timestamp) ==
    IF feed_id \notin DOMAIN price_feeds THEN "Price feed not found"
    ELSE IF ~oracle_config.some THEN "Oracle not initialized"
    ELSE IF timestamp + oracle_config.v.max_age_seconds
              < price_feeds[feed_id].last_updated THEN "Data too old"
    ELSE "Ok"

update_price_feed(feed_id, new_price, timestamp) ==
    LET res == update_price_feed_result(feed_id, timestamp)
        call == [op |-> "update_price_feed", result |-> res, feed_id |-> feed_id,
                 new_price |-> new_price, timestamp |-> timestamp]
    IN  IF res # "Ok" THEN Refused(call)
        ELSE
        /\ price_feeds' = [price_feeds EXCEPT ![feed_id].price = new_price,
                                              ![feed_id].last_updated = timestamp]
        /\ last' = call
        /\ UNCHANGED <<registry_keys, providers, configs, fees, meters, versions,
                       persistent, oracle_config, oracle_admin, utility_rates,
                       balance, now, payments, upgrades,
                       instance, events, oracle_cost, oracle_reliability, userVars>>

\* A gate that looks at the reliability score only.
UsableAtAnyAge(price_feed) ==
    price_feed.reliability_score >= oracle_config.v.min_reliability_score

\* The gate: fresh enough and reliable enough.
Usable(price_feed) ==
    /\ now - price_feed.last_updated <= oracle_config.v.max_age_seconds
    /\ price_feed.reliability_score >= oracle_config.v.min_reliability_score

\* OracleManager::get_fallback_price: a query; the stored price of a usable
\* feed, nothing otherwise.
get_fallback_price(feed_id) ==
    LET price_feed == get_price_feed(feed_id)
    IN  Refused([op |-> "get_fallback_price", result |-> "Ok", feed_id |-> feed_id,
                 value |-> IF /\ oracle_config.some
                              /\ oracle_config.v.fallback_enabled
                              /\ price_feed.some
                              /\ Usable(price_feed.v)
                           THEN Some(price_feed.v.price) ELSE None])

\* Responses within this many milliseconds count as fast.
FastResponse == 2000

\* The same movement without the limits.
ScoreAfterUnclamped(score, success, response_time) ==
    IF success
    THEN score + (IF response_time <= FastResponse THEN 20 ELSE 10)
    ELSE score - 10

\* The score after one more call outcome: up on success (more for a fast
\* response), down on failure, kept within 0..100.
ScoreAfter(score, success, response_time) ==
    LET moved == IF success
                 THEN score + (IF response_time <= FastResponse THEN 20 ELSE 10)
                 ELSE score - 10
    IN  IF moved > 100 THEN 100 ELSE IF moved < 0 THEN 0 ELSE moved

\* OracleManager::update_reliability
update_reliability(success, response_time) ==
    /\ oracle_reliability.total_calls < MaxReliabilityCalls
    /\ oracle_reliability' =
         [total_calls |-> oracle_reliability.total_calls + 1,
          successful_calls |-> oracle_reliability.successful_calls
                                 + (IF success THEN 1 ELSE 0),
          failed_calls |-> oracle_reliability.failed_calls
                             + (IF success THEN 0 ELSE 1),
          score |-> ScoreAfter(oracle_reliability.score, success, response_time)]
    /\ last' = [op |-> "update_reliability", result |-> "Ok",
                success |-> success, response_time |-> response_time]
    /\ UNCHANGED <<registry_keys, providers, configs, fees, meters, versions,
                   persistent, oracle_config, oracle_admin, price_feeds,
                   utility_rates, balance, now, payments, upgrades,
                   instance, events, oracle_cost, userVars>>

\* A tracker that accepts every cost.
track_oracle_cost_unlimited(cost) ==
    IF ~oracle_config.some THEN "Oracle not initialized" ELSE "Ok"

track_oracle_cost_result(cost) ==
    IF ~oracle_config.some THEN "Oracle not initialized"
    ELSE IF cost > oracle_config.v.cost_limit_per_call
         THEN "Cost exceeds limit per call"
    ELSE "Ok"

\* OracleManager::track_oracle_cost
track_oracle_cost(cost) ==
    LET res == track_oracle_cost_result(cost)
        call == [op |-> "track_oracle_cost", result |-> res, cost |-> cost]
        total_spent == oracle_cost.total_spent + cost
        calls_made == oracle_cost.calls_made + 1
    IN  IF res # "Ok" THEN Refused(call)
        ELSE
        /\ oracle_cost.calls_made < MaxCostCalls
        /\ oracle_cost' = [total_spent |-> total_spent, calls_made |-> calls_made,
                           average_cost_per_call |-> TruncDiv(total_spent, calls_made)]
        /\ last' = call
        /\ UNCHANGED <<registry_keys, providers, configs, fees, meters, versions,
                       persistent, oracle_config, oracle_admin, price_feeds,
                       utility_rates, balance, now, payments, upgrades,
                       instance, events, oracle_reliability, userVars>>

(***************************************************************************)
(* The oracle payment entry points of lib.rs.                              *)
(***************************************************************************)

\* persistent.get(&meter_id).unwrap_or(0) read as i128: an entry of another
\* type makes the conversion trap.
TotalReadable(key) == key \notin DOMAIN persistent \/ persistent[key].kind = "total"
current_total(key) == IF key \in DOMAIN persistent THEN persistent[key].v ELSE 0

\* NepaBillingContract::get_total_paid: persistent.get(&meter_id) read as
\* i128 with unwrap_or(0); no value when the conversion of the entry traps.
get_total_paid(meter_id) ==
    IF TotalReadable(meter_id) THEN Some(current_total(meter_id)) ELSE None

\* persistent.get(&billing_key) read as Option<(i128, i128, i128, String)>:
\* absent for a missing key, the tuple for a pay_utility_bill record, and a
\* trap on the conversion of an entry of any other shape.
BillingReadable(key) ==
    key \notin DOMAIN persistent \/ persistent[key].kind = "utility"

\* NepaBillingContract::get_billing_details
get_billing_details(meter_id, timestamp) ==
    LET billing_key == Fmt(meter_id, ToString(timestamp))
    IN  Refused([op |-> "get_billing_details",
                 result |-> IF BillingReadable(billing_key) THEN "Ok"
                            ELSE "panic: storage type",
                 meter_id |-> meter_id, timestamp |-> timestamp,
                 key |-> billing_key,
                 value |-> IF billing_key \in DOMAIN persistent
                              /\ BillingReadable(billing_key)
                           THEN Some(persistent[billing_key].data) ELSE None])

PayOracleOutcome(signer, from, meter_id, amount, currency, use_exchange_rate) ==
    LET feed_id == Fmt(currency, "USD")
        price_feed == get_price_feed(feed_id)
        gate ==
            IF ~use_exchange_rate THEN "Ok"
            ELSE IF ~price_feed.some THEN "Exchange rate not available"
            ELSE IF ~oracle_config.some THEN "Oracle not initialized"
            ELSE IF price_feed.v.reliability_score
                      < oracle_config.v.min_reliability_score
                 THEN "Price feed reliability too low"
            ELSE "Ok"
        final_amount ==
            IF use_exchange_rate /\ price_feed.some
            THEN TruncDiv(amount * price_feed.v.price, Pow10(price_feed.v.decimals))
            ELSE amount
        result ==
            IF ~require_auth(from, signer) THEN "panic: auth"
            ELSE IF gate # "Ok" THEN gate
            ELSE IF ~TransferOk(balance, from, final_amount) THEN "panic: transfer"
            ELSE IF ~TotalReadable(meter_id) THEN "panic: storage type"
            ELSE "Ok"
    IN  [result |-> result, final_amount |-> final_amount,
         feed_id |-> IF use_exchange_rate THEN feed_id ELSE ""]

pay_bill_with_oracle(signer, from, meter_id, amount, currency, use_exchange_rate) ==
    LET out == PayOracleOutcome(signer, from, meter_id, amount, currency,
                                use_exchange_rate)
    IN
    /\ out.result = "Ok" => payments < MaxPayments
    /\ balance' = BalanceAfterTransfer(out.result, from, out.final_amount)
    /\ persistent' =
         IF out.result = "Ok"
         THEN MapSet(persistent, meter_id,
                     [kind |-> "total",
                      v |-> current_total(meter_id) + out.final_amount])
         ELSE persistent
    /\ payments' = IF out.result = "Ok" THEN payments + 1 ELSE payments
    /\ last' = [op |-> "pay_bill_with_oracle", result |-> out.result,
                from |-> from, meter_id |-> meter_id, currency |-> currency,
                final_amount |-> out.final_amount, feed_id |-> out.feed_id,
                rate_id |-> ""]
    /\ UNCHANGED <<registry_keys, providers, configs, fees, meters, versions,
                   oracle_config, oracle_admin, price_feeds, utility_rates, now, upgrades,
                   instance, events, oracle_cost, oracle_reliability, userVars>>

\* NepaBillingContract::pay_bill: authorise, transfer, then add the amount to
\* the total stored under meter_id.
pay_bill_result(signer, from, meter_id, amount) ==
    IF ~require_auth(from, signer) THEN "panic: auth"
    ELSE IF ~TransferOk(balance, from, amount) THEN "panic: transfer"
    ELSE IF ~TotalReadable(meter_id) THEN "panic: storage type"
    ELSE "Ok"

pay_bill(signer, from, meter_id, amount) ==
    LET result == pay_bill_result(signer, from, meter_id, amount)
    IN
    /\ result = "Ok" => payments < MaxPayments
    /\ balance' = BalanceAfterTransfer(result, from, amount)
    /\ persistent' =
         IF result = "Ok"
         THEN MapSet(persistent, meter_id,
                     [kind |-> "total", v |-> current_total(meter_id) + amount])
         ELSE persistent
    /\ payments' = IF result = "Ok" THEN payments + 1 ELSE payments
    /\ last' = [op |-> "pay_bill", result |-> result, signer |-> signer,
                from |-> from, meter_id |-> meter_id, amount |-> amount]
    /\ UNCHANGED <<registry_keys, providers, configs, fees, meters, versions,
                   oracle_config, oracle_admin, price_feeds, utility_rates, now, upgrades,
                   instance, events, oracle_cost, oracle_reliability, userVars>>

PayUtilityOutcome(signer, from, kwh_consumed, utility_type, region, currency) ==
    LET rate_id == Fmt(utility_type, region)
        utility_rate == get_utility_rate(rate_id)
        feed_id == IF utility_rate.some
                   THEN Fmt(utility_rate.v.currency, currency) ELSE ""
        converts == utility_rate.some /\ utility_rate.v.currency # currency
        price_feed == get_price_feed(feed_id)
        subtotal == IF utility_rate.some
                    THEN kwh_consumed * utility_rate.v.rate_per_kwh ELSE 0
        final_amount ==
            IF converts /\ price_feed.some
            THEN TruncDiv(subtotal * price_feed.v.price, Pow10(price_feed.v.decimals))
            ELSE subtotal
        result ==
            IF ~require_auth(from, signer) THEN "panic: auth"
            ELSE IF ~utility_rate.some THEN "Utility rate not available"
            ELSE IF ~oracle_config.some THEN "Oracle not initialized"
            ELSE IF utility_rate.v.reliability_score
                      < oracle_config.v.min_reliability_score
                 THEN "Utility rate reliability too low"
            ELSE IF converts /\ ~price_feed.some THEN "Exchange rate not available"
            ELSE IF ~TransferOk(balance, from, final_amount) THEN "panic: transfer"
            ELSE "Ok"
    IN  [result |-> result, final_amount |-> final_amount, rate_id |-> rate_id,
         rate_per_kwh |-> IF utility_rate.some THEN utility_rate.v.rate_per_kwh
                          ELSE 0,
         feed_id |-> IF converts THEN feed_id ELSE ""]

pay_utility_bill(signer, from, meter_id, kwh_consumed, utility_type, region, currency) ==
    LET out == PayUtilityOutcome(signer, from, kwh_consumed, utility_type,
                                 region, currency)
        billing_key == Fmt(meter_id, ToString(now))
    IN
    /\ out.result = "Ok" => payments < MaxPayments
    /\ balance' = BalanceAfterTransfer(out.result, from, out.final_amount)
    /\ persistent' =
         IF out.result = "Ok"
         THEN MapSet(persistent, billing_key,
                     [kind |-> "utility",
                      data |-> <<kwh_consumed, out.rate_per_kwh,
                                 out.final_amount, utility_type>>])
         ELSE persistent
    /\ payments' = IF out.result = "Ok" THEN payments + 1 ELSE payments
    /\ last' = [op |-> "pay_utility_bill", result |-> out.result,
                from |-> from, meter_id |-> meter_id, currency |-> currency,
                final_amount |-> out.final_amount, feed_id |-> out.feed_id,
                rate_id |-> out.rate_id]
    /\ UNCHANGED <<registry_keys, providers, configs, fees, meters, versions,
                   oracle_config, oracle_admin, price_feeds, utility_rates, now, upgrades,
                   instance, events, oracle_cost, oracle_reliability, userVars>>

(***************************************************************************)
(* The upgrade subsystem (upgrade_proxy.rs, version_manager.rs,            *)
(* data_migration.rs), called by NepaBillingContract as library code: the  *)
(* three managers share the contract's instance storage, and with it the   *)
(* ADMIN entry.                                                            *)
(***************************************************************************)
nonUpgradeVars == <<regVars, persistent, oracleVars, balance, now, payments,
                    upgrades, oracle_cost, oracle_reliability, userVars>>

ZeroAddress == "zero"        \* Address::from_contract_id(&[0u8; 32])

\* .get(VERSIONS).unwrap_or_else(|| Map::new(&env))
VersionRegistry == IF "VERSIONS" \in DOMAIN instance THEN instance["VERSIONS"] ELSE EmptyMap

\* .get(MIGRATIONS).unwrap_or_else(|| Map::new(&env))
MigrationRegistry ==
    IF "MIGRATIONS" \in DOMAIN instance THEN instance["MIGRATIONS"] ELSE EmptyMap

Event(topics, data) == [topics |-> topics, data |-> data]

\* A completed invocation of the upgrade subsystem: the instance entries it
\* wrote and the event it published.
UpgradeCommit(call, new_instance, event) ==
    /\ Len(events) < MaxEvents
    /\ instance' = new_instance
    /\ events' = Append(events, event)
    /\ last' = call
    /\ UNCHANGED nonUpgradeVars

\* NepaBillingContract::initialize_upgrade_system: the three initialize
\* functions in turn; none of them asks for authorization.
initialize_upgrade_system(signer, admin) ==
    /\ instance' = MapSet(MapSet(MapSet(MapSet(MapSet(instance,
                        "ADMIN", admin), "VERSION", 1), "IMPL", ZeroAddress),
                        "VERSIONS", EmptyMap), "MIGRATIONS", EmptyMap)
    /\ last' = [op |-> "initialize_upgrade_system", result |-> "Ok",
                signer |-> signer, admin |-> admin]
    /\ UNCHANGED <<nonUpgradeVars, events>>

\* The admin check the operations share: the stored ADMIN is unwrapped, then
\* compared with the `admin` argument.
AdminCheck(admin) ==
    IF "ADMIN" \notin DOMAIN instance THEN "panic"
    ELSE IF instance["ADMIN"] # admin THEN "UNAUTHORIZED"
    ELSE "Ok"

\* UpgradeProxy::upgrade
UpgradeProxy_upgrade(signer, admin, new_implementation, new_version) ==
    LET res == IF AdminCheck(admin) # "Ok" THEN AdminCheck(admin)
               ELSE IF "IMPL" \notin DOMAIN instance THEN "panic"
               ELSE "Ok"
        call == [op |-> "UpgradeProxy::upgrade", result |-> res, signer |-> signer,
                 admin |-> admin, new_implementation |-> new_implementation,
                 new_version |-> new_version]
    IN  IF res # "Ok" THEN Refused(call)
        ELSE UpgradeCommit(call,
                 MapSet(MapSet(MapSet(instance, "OLD_IMPL", instance["IMPL"]),
                               "IMPL", new_implementation),
                        "VERSION", new_version),
                 Event(<<"UPGRADE", instance["IMPL"], new_implementation>>,
                       <<new_version, now>>))

\* UpgradeProxy::migrate_data
UpgradeProxy_migrate_data(signer, admin) ==
    LET res == IF AdminCheck(admin) # "Ok" THEN AdminCheck(admin)
               ELSE IF "OLD_IMPL" \notin DOMAIN instance THEN "NO_OLD_IMPL"
               ELSE "Ok"
        call == [op |-> "UpgradeProxy::migrate_data", result |-> res,
                 signer |-> signer, admin |-> admin]
    IN  IF res # "Ok" THEN Refused(call)
        ELSE UpgradeCommit(call, instance,
                 Event(<<"MIGRATE", instance["OLD_IMPL"]>>, <<now>>))

\* VersionManager::register_version
register_version(signer, admin, version, implementation_address, migration_required, backward_compatible) ==
    LET res == AdminCheck(admin)
        call == [op |-> "VersionManager::register_version", result |-> res,
                 signer |-> signer, admin |-> admin, version |-> version]
        version_info == [version |-> version,
                         implementation_address |-> implementation_address,
                         deployment_timestamp |-> now,
                         migration_required |-> migration_required,
                         backward_compatible |-> backward_compatible]
    IN  IF res # "Ok" THEN Refused(call)
        ELSE UpgradeCommit(call,
                 MapSet(instance, "VERSIONS",
                        MapSet(VersionRegistry, version, version_info)),
                 Event(<<"VERSION_REGISTERED", version>>,
                       <<implementation_address, migration_required,
                         backward_compatible>>))

\* DataMigration::get_migration_scripts
get_migration_scripts(to_version) ==
    IF to_version \in DOMAIN MigrationRegistry
    THEN MigrationRegistry[to_version] ELSE <<>>

\* DataMigration::register_migration_script
register_migration_script(signer, admin, from_version, to_version, script_hash, description) ==
    LET res == AdminCheck(admin)
        call == [op |-> "DataMigration::register_migration_script",
                 result |-> res, signer |-> signer, admin |-> admin,
                 from_version |-> from_version, to_version |-> to_version]
        migration == [from_version |-> from_version, to_version |-> to_version,
                      script_hash |-> script_hash, description |-> description]
    IN  IF res # "Ok" THEN Refused(call)
        ELSE UpgradeCommit(call,
                 MapSet(instance, "MIGRATIONS",
                        MapSet(MigrationRegistry, to_version,
                               Append(get_migration_scripts(to_version), migration))),
                 Event(<<"MIGRATION_REGISTERED", from_version, to_version>>,
                       <<script_hash, description>>))

\* The loop of execute_migration: the first script of the path, if any.
RECURSIVE FindMigration(_, _, _, _)
FindMigration(migrations, i, from_version, to_version) ==
    IF i > Len(migrations) THEN None
    ELSE IF /\ migrations[i].from_version = from_version
            /\ migrations[i].to_version = to_version
         THEN Some(migrations[i])
    ELSE FindMigration(migrations, i + 1, from_version, to_version)

\* DataMigration::execute_migration
execute_migration(signer, admin, from_version, to_version) ==
    LET found == FindMigration(get_migration_scripts(to_version), 1,
                               from_version, to_version)
        res == IF AdminCheck(admin) # "Ok" THEN AdminCheck(admin)
               ELSE IF ~found.some THEN "MIGRATION_NOT_FOUND"
               ELSE "Ok"
        call == [op |-> "DataMigration::execute_migration", result |-> res,
                 signer |-> signer, admin |-> admin,
                 from_version |-> from_version, to_version |-> to_version]
    IN  IF res # "Ok" THEN Refused(call)
        ELSE UpgradeCommit(call, instance,
                 Event(<<"MIGRATION_EXECUTED", from_version, to_version>>,
                       <<found.v.script_hash, now>>))

\* DataMigration::backup_data
backup_data(signer, admin) ==
    LET res == AdminCheck(admin)
        backup_id == Fmt("BACKUP", ToString(now))
        call == [op |-> "DataMigration::backup_data", result |-> res,
                 signer |-> signer, admin |-> admin, backup_id |-> backup_id]
    IN  IF res # "Ok" THEN Refused(call)
        ELSE UpgradeCommit(call, instance,
                 Event(<<"DATA_BACKUP", backup_id>>, <<now>>))

\* DataMigration::restore_data
restore_data(signer, admin, backup_id) ==
    LET res == AdminCheck(admin)
        call == [op |-> "DataMigration::restore_data", result |-> res,
                 signer |-> signer, admin |-> admin, backup_id |-> backup_id]
    IN  IF res # "Ok" THEN Refused(call)
        ELSE UpgradeCommit(call, instance,
                 Event(<<"DATA_RESTORE", backup_id>>, <<now>>))

\* An answer that ignores the direction of the upgrade.
UpgradeSafeAnyDirection(to_info, from_version, to_version) ==
    to_info.backward_compatible

\* The answer of is_upgrade_safe once both versions are found.
UpgradeSafe(to_info, from_version, to_version) ==
    ~(~to_info.backward_compatible /\ from_version < to_version)

\* VersionManager::is_upgrade_safe: a query.
is_upgrade_safe(from_version, to_version) ==
    LET res == IF from_version \notin DOMAIN VersionRegistry
               THEN "FROM_VERSION_NOT_FOUND"
               ELSE IF to_version \notin DOMAIN VersionRegistry
                    THEN "TO_VERSION_NOT_FOUND"
               ELSE "Ok"
    IN  Refused([op |-> "VersionManager::is_upgrade_safe", result |-> res,
                 from_version |-> from_version, to_version |-> to_version,
                 value |-> IF res = "Ok"
                           THEN UpgradeSafe(VersionRegistry[to_version],
                                            from_version, to_version)
                           ELSE FALSE])

\* UpgradeProxy::get_version, as NepaBillingContract::get_contract_version
\* reports it; the stored VERSION is unwrapped.
get_contract_version == instance["VERSION"]

\* VersionManager::is_upgrade_safe as upgrade_contract calls it.
is_upgrade_safe_result(from_version, to_version) ==
    IF from_version \notin DOMAIN VersionRegistry THEN "FROM_VERSION_NOT_FOUND"
    ELSE IF to_version \notin DOMAIN VersionRegistry THEN "TO_VERSION_NOT_FOUND"
    ELSE IF ~UpgradeSafe(VersionRegistry[to_version], from_version, to_version)
         THEN "UNSAFE_UPGRADE"
    ELSE "Ok"

\* The instance entries UpgradeProxy::upgrade writes.
InstanceAfterUpgrade(new_implementation, new_version) ==
    MapSet(MapSet(MapSet(instance, "OLD_IMPL", instance["IMPL"]),
                  "IMPL", new_implementation),
           "VERSION", new_version)

\* The events of backup_data and UpgradeProxy::upgrade inside upgrade_contract.
BackupAndUpgradeEvents(new_implementation, new_version) ==
    <<Event(<<"DATA_BACKUP", Fmt("BACKUP", ToString(now))>>, <<now>>),
      Event(<<"UPGRADE", instance["IMPL"], new_implementation>>,
            <<new_version, now>>)>>

\* The number of UPGRADE events in a log.
RECURSIVE UpgradeEvents(_)
UpgradeEvents(log) ==
    IF log = <<>> THEN 0
    ELSE (IF Head(log).topics[1] = "UPGRADE" THEN 1 ELSE 0) + UpgradeEvents(Tail(log))

\* The result of upgrade_contract: the first error of is_upgrade_safe, the
\* safety test, backup_data, UpgradeProxy::upgrade and execute_migration.
upgrade_contract_result(admin, new_version) ==
    IF "VERSION" \notin DOMAIN instance THEN "panic"
    ELSE IF is_upgrade_safe_result(get_contract_version, new_version) # "Ok"
         THEN is_upgrade_safe_result(get_contract_version, new_version)
    ELSE IF AdminCheck(admin) # "Ok" THEN AdminCheck(admin)
    ELSE IF "IMPL" \notin DOMAIN instance THEN "panic"
    ELSE IF /\ VersionRegistry[new_version].migration_required
            /\ ~FindMigration(get_migration_scripts(new_version), 1,
                               get_contract_version, new_version).some
         THEN "MIGRATION_NOT_FOUND"
    ELSE "Ok"

\* NepaBillingContract::upgrade_contract.  The proxy is written (line 569)
\* before execute_migration (line 575) can return its error.  An invocation
\* made through the host is rolled back when it returns an error; the
\* function called directly, as upgrade_tests.rs calls the managers, returns
\* the error with the proxy already written.  Both outcomes are modelled.
upgrade_contract(signer, admin, new_implementation, new_version) ==
    LET res == upgrade_contract_result(admin, new_version)
        call == [op |-> "upgrade_contract", result |-> res, signer |-> signer,
                 admin |-> admin, new_implementation |-> new_implementation,
                 new_version |-> new_version]
    IN  IF res \notin {"Ok", "MIGRATION_NOT_FOUND"} THEN Refused(call)
        ELSE IF res = "MIGRATION_NOT_FOUND"
        THEN \/ Refused(call)
             \/ /\ UpgradeEvents(events) < MaxContractUpgrades
                /\ instance' = InstanceAfterUpgrade(new_implementation, new_version)
                /\ events' = events \o BackupAndUpgradeEvents(new_implementation,
                                                              new_version)
                /\ last' = call
                /\ UNCHANGED nonUpgradeVars
        ELSE /\ UpgradeEvents(events) < MaxContractUpgrades
             /\ instance' = InstanceAfterUpgrade(new_implementation, new_version)
             /\ events' =
                  events \o BackupAndUpgradeEvents(new_implementation, new_version)
                  \o (IF VersionRegistry[new_version].migration_required
                      THEN <<Event(<<"MIGRATION_EXECUTED", get_contract_version,
                                     new_version>>,
                                   <<FindMigration(get_migration_scripts(new_version),
                                        1, get_contract_version,
                                        new_version).v.script_hash, now>>)>>
                      ELSE <<>>)
             /\ last' = call
             /\ UNCHANGED nonUpgradeVars

(***************************************************************************)
(* The user registry (src/lib.rs, contract UserManagement): a contract of  *)
(* its own, with its own instance and persistent storage.                  *)
(***************************************************************************)
nonUserVars == <<regVars, persistent, oracleVars, balance, now, payments,
                 upgrades, instance, events, oracle_cost, oracle_reliability>>

\* enum DataKey: UserProfile(Address), UserRole(Address), ...
DataKey(kind, addr) == <<kind, addr>>

\* env.storage().persistent().get(&key).unwrap_or(default)
UserGet(key, default) ==
    IF key \in DOMAIN user_persistent THEN user_persistent[key] ELSE default

\* A user-registry call that panicked: the invocation is rolled back.
UserRefused(call) ==
    /\ last' = call
    /\ UNCHANGED <<nonUserVars, userVars>>

\* A user-registry call that completed with the persistent entries it wrote.
UserCommit(call, new_persistent) ==
    /\ user_persistent' = new_persistent
    /\ last' = call
    /\ UNCHANGED <<nonUserVars, user_instance, logged>>

\* UserManagement::check_admin
check_admin(admin) ==
    IF "Admin" \notin DOMAIN user_instance THEN "Not initialized"
    ELSE IF admin = user_instance["Admin"] THEN "Ok"
    ELSE IF UserGet(DataKey("UserRole", admin), "None") # "Admin"
         THEN "Not authorized: Admin role required"
    ELSE "Ok"

\* UserManagement::check_active
check_active(user) ==
    IF ~UserGet(DataKey("UserStatus", user), FALSE)
    THEN "User account is not active"
    ELSE "Ok"

\* The guard of a privileged operation: require_auth, then check_admin.
AdminGate(signer, admin) ==
    IF ~require_auth(admin, signer) THEN "panic: auth" ELSE check_admin(admin)

\* The guard of a user's own operation: require_auth, then check_active.
ActiveGate(signer, user) ==
    IF ~require_auth(user, signer) THEN "panic: auth" ELSE check_active(user)

\* UserManagement::initialize
UserManagement_initialize(signer, admin) ==
    LET res == IF "Admin" \in DOMAIN user_instance
               THEN "Already initialized" ELSE "Ok"
        call == [op |-> "UserManagement::initialize", result |-> res,
                 signer |-> signer, admin |-> admin]
    IN  IF res # "Ok" THEN UserRefused(call)
        ELSE
        /\ user_instance' = MapSet(user_instance, "Admin", admin)
        /\ user_persistent' = MapSet(MapSet(user_persistent,
                                   DataKey("UserRole", admin), "Admin"),
                                   DataKey("UserStatus", admin), TRUE)
        /\ last' = call
        /\ UNCHANGED <<nonUserVars, logged>>

\* UserManagement::register
register(signer, user, profile_hash) ==
    LET res == IF ~require_auth(user, signer) THEN "panic: auth"
               ELSE IF DataKey("UserProfile", user) \in DOMAIN user_persistent
                    THEN "User already registered"
               ELSE "Ok"
        call == [op |-> "register", result |-> res, signer |-> signer,
                 user |-> user]
        profile == [profile_hash |-> profile_hash, created_at |-> now,
                    is_verified |-> FALSE]
    IN  IF res # "Ok" THEN UserRefused(call)
        ELSE
        /\ user_persistent' =
              MapSet(MapSet(MapSet(MapSet(MapSet(user_persistent,
                  DataKey("UserProfile", user), profile),
                  DataKey("UserRole", user), "User"),
                  DataKey("UserStatus", user), TRUE),
                  DataKey("UserReputation", user), 0),
                  DataKey("UserActivity", user), 0)
        /\ logged' = MapSet(logged, user, 0)
        /\ last' = call
        /\ UNCHANGED <<nonUserVars, user_instance>>

\* UserManagement::update_profile
update_profile(signer, user, new_profile_hash) ==
    LET res == IF ActiveGate(signer, user) # "Ok" THEN ActiveGate(signer, user)
               ELSE IF DataKey("UserProfile", user) \notin DOMAIN user_persistent
                    THEN "User not found"
               ELSE "Ok"
        call == [op |-> "update_profile", result |-> res, signer |-> signer,
                 user |-> user]
    IN  IF res # "Ok" THEN UserRefused(call)
        ELSE UserCommit(call,
                 MapSet(user_persistent, DataKey("UserProfile", user),
                        [user_persistent[DataKey("UserProfile", user)]
                             EXCEPT !.profile_hash = new_profile_hash]))

\* UserManagement::verify_user
verify_user(signer, admin, user) ==
    LET res == IF AdminGate(signer, admin) # "Ok" THEN AdminGate(signer, admin)
               ELSE IF DataKey("UserProfile", user) \notin DOMAIN user_persistent
                    THEN "User not found"
               ELSE "Ok"
        call == [op |-> "verify_user", result |-> res, signer |-> signer,
                 admin |-> admin, user |-> user]
    IN  IF res # "Ok" THEN UserRefused(call)
        ELSE UserCommit(call,
                 MapSet(user_persistent, DataKey("UserProfile", user),
                        [user_persistent[DataKey("UserProfile", user)]
                             EXCEPT !.is_verified = TRUE]))

\* UserManagement::set_role
set_role(signer, admin, user, role) ==
    LET res == AdminGate(signer, admin)
        call == [op |-> "set_role", result |-> res, signer |-> signer,
                 admin |-> admin, user |-> user]
    IN  IF res # "Ok" THEN UserRefused(call)
        ELSE UserCommit(call, MapSet(user_persistent, DataKey("UserRole", user), role))

\* UserManagement::set_reputation
set_reputation(signer, admin, user, score) ==
    LET res == AdminGate(signer, admin)
        call == [op |-> "set_reputation", result |-> res, signer |-> signer,
                 admin |-> admin, user |-> user]
    IN  IF res # "Ok" THEN UserRefused(call)
        ELSE UserCommit(call,
                 MapSet(user_persistent, DataKey("UserReputation", user), score))

\* UserManagement::suspend_user
suspend_user(signer, admin, user) ==
    LET res == AdminGate(signer, admin)
        call == [op |-> "suspend_user", result |-> res, signer |-> signer,
                 admin |-> admin, user |-> user]
    IN  IF res # "Ok" THEN UserRefused(call)
        ELSE UserCommit(call, MapSet(user_persistent, DataKey("UserStatus", user), FALSE))

\* UserManagement::unsuspend_user
unsuspend_user(signer, admin, user) ==
    LET res == AdminGate(signer, admin)
        call == [op |-> "unsuspend_user", result |-> res, signer |-> signer,
                 admin |-> admin, user |-> user]
    IN  IF res # "Ok" THEN UserRefused(call)
        ELSE UserCommit(call, MapSet(user_persistent, DataKey("UserStatus", user), TRUE))

\* UserManagement::get_activity_count
get_activity_count(user) == UserGet(DataKey("UserActivity", user), 0)

\* UserManagement::log_activity
log_activity(signer, user) ==
    LET res == ActiveGate(signer, user)
        call == [op |-> "log_activity", result |-> res, signer |-> signer,
                 user |-> user]
    IN  IF res # "Ok" THEN UserRefused(call)
        ELSE
        /\ get_activity_count(user) < MaxActivity
        /\ user_persistent' = MapSet(user_persistent, DataKey("UserActivity", user),
                                     get_activity_count(user) + 1)
        /\ logged' = IF user \in DOMAIN logged
                     THEN MapSet(logged, user, logged[user] + 1) ELSE logged
        /\ last' = call
        /\ UNCHANGED <<nonUserVars, user_instance>>

\* The ledger closes and its timestamp moves on.
Tick(t) ==
    /\ t > now
    /\ now' = t
    /\ last' = [op |-> "tick", result |-> "Ok"]
    /\ UNCHANGED <<registry_keys, providers, configs, fees, meters, versions,
                   persistent, oracle_config, oracle_admin, price_feeds,
                   utility_rates, balance, payments, upgrades,
                   instance, events, oracle_cost, oracle_reliability, userVars>>

(***************************************************************************)
(* Inputs.                                                                 *)
(***************************************************************************)
TimePoints == {0, 3600, 86400, 90000}   \* (hour, weekday): (0,0) (1,0) (0,1) (1,1)
LifecycleTimes == {0, 3600}

\* OracleConfig as the tests create it.
TestOracleConfig ==
    [max_age_seconds |-> 300, min_reliability_score |-> 70,
     fallback_enabled |-> TRUE, cost_limit_per_call |-> 1000000]

Feed(last_updated, reliability_score) ==
    [base_asset |-> "NGN", quote_asset |-> "USD", decimals |-> 1,
     last_updated |-> last_updated, price |-> 15,
     reliability_score |-> reliability_score]

Rate(reliability_score) ==
    [utility_type |-> "electricity", rate_per_kwh |-> 3, currency |-> "NGN",
     region |-> "r1", last_updated |-> 0, reliability_score |-> reliability_score]

Reliabilities == {50, 90}
Currencies == {"NGN", "USD"}

\* Configurations handed to upgrade_utility_config.  version and last_updated
\* are whatever the caller sent; the handler overwrites them.
Shape(base_rate, tier_rates, time_of_use_rates, tax_rates, minimum_payment, maximum_payment, is_active) ==
    [utility_type |-> "Electricity", provider_id |-> "p1", region |-> "r1",
     base_rate |-> base_rate, currency |-> "NGN", decimals |-> 0,
     tier_rates |-> tier_rates, time_of_use_rates |-> time_of_use_rates,
     tax_rates |-> tax_rates, late_fee_config |-> DefaultLateFee(5),
     minimum_payment |-> minimum_payment, maximum_payment |-> maximum_payment,
     is_active |-> is_active, version |-> 7, last_updated |-> 12]

Tier(min_units, max_units, rate_per_unit) ==
    [min_units |-> min_units, max_units |-> max_units,
     rate_per_unit |-> rate_per_unit]

Tou(start_hour, end_hour, days_of_week, rate_multiplier) ==
    [start_hour |-> start_hour, end_hour |-> end_hour,
     days_of_week |-> days_of_week, rate_multiplier |-> rate_multiplier]

Tax(rate_percentage, is_compound, max_amount) ==
    [rate_percentage |-> rate_percentage, is_compound |-> is_compound,
     max_amount |-> max_amount]

BigMax == 2000000        \* a payment limit and a balance above every bill

ShapePlain    == Shape(2, <<>>, <<>>, <<>>, 4, 6, TRUE)
ShapeInactive == Shape(2, <<>>, <<>>, <<>>, 4, 6, FALSE)
ShapeTiers    == Shape(2, <<Tier(0, 2, 3), Tier(2, 5, 1)>>, <<>>, <<>>, 0, BigMax, TRUE)
ShapeTou      == Shape(1, <<>>,
                       <<Tou(0, 0, {0}, 150), Tou(1, 1, {1}, 250),
                         Tou(0, 1, {1}, 350)>>,
                       <<>>, -10, BigMax, TRUE)
ShapeTax      == Shape(3, <<>>, <<>>,
                       <<Tax(10, FALSE, None), Tax(50, TRUE, Some(1))>>,
                       0, BigMax, TRUE)

LifecycleShapes == {ShapePlain, ShapeInactive}
BillShapes == {ShapePlain, ShapeTiers, ShapeTou, ShapeTax}

Consumptions == {-1, 2, 3, 6}

UpgradeCount(config_id) ==
    IF config_id \in DOMAIN upgrades THEN upgrades[config_id] ELSE 0

NoCall == [op |-> "none", result |-> "Ok"]

(***************************************************************************)
(* Spec: the contract from its construction.  NepaBillingContract::        *)
(* initialize has stored the oracle configuration; the registry is empty.  *)
(***************************************************************************)
Init ==
    /\ registry_keys = {}
    /\ providers = EmptyMap
    /\ configs = EmptyMap
    /\ fees = EmptyMap
    /\ meters = EmptyMap
    /\ versions = EmptyMap
    /\ persistent = EmptyMap
    /\ oracle_config = Some(TestOracleConfig)
    /\ oracle_admin = Admin
    /\ instance = EmptyMap
    /\ events = <<>>
    /\ oracle_cost = NewOracleCost
    /\ oracle_reliability = NewOracleReliability
    /\ user_instance = EmptyMap
    /\ user_persistent = EmptyMap
    /\ logged = EmptyMap
    /\ price_feeds = EmptyMap
    /\ utility_rates = EmptyMap
    /\ balance = [a \in {Payer, Contract} |-> IF a = Payer THEN InitialBalance ELSE 0]
    /\ now = 0
    /\ payments = 0
    /\ upgrades = EmptyMap
    /\ last = NoCall

Next ==
    \/ register_provider(Admin, Admin, "p1", "Power Co", ProviderAddr, 1, "r1")
    \/ add_utility_config(Admin, Admin, "p1_r1", 1, "p1", "r1", 2, "NGN", 0, 5, 4, 6)
    \/ register_meter(ProviderAddr, ProviderAddr, "m1", 1, "p1", Payer, TRUE)
    \/ \E new_config \in LifecycleShapes :
          /\ UpgradeCount("p1_r1") < MaxUpgrades
          /\ upgrade_utility_config(Admin, Admin, "p1_r1", new_config)
    \/ \E r \in Reliabilities :
          add_price_feed(Admin, Admin, "NGN_USD", Feed(now, r))
    \/ \E t \in LifecycleTimes : Tick(t)
    \/ \E consumption \in {0, 2, 6}, currency \in Currencies :
          pay_multi_utility_bill(Payer, Payer, "m1", consumption, currency, FALSE)

Spec == Init /\ [][Next]_vars

(***************************************************************************)
(* SpecOracle: the price store and the two oracle payment entry points,    *)
(* from the same construction state.                                       *)
(***************************************************************************)
NextOracle ==
    \/ \E r \in Reliabilities :
          add_price_feed(Admin, Admin, "NGN_USD", Feed(now, r))
    \/ \E r \in Reliabilities :
          add_utility_rate(Admin, Admin, "electricity_r1", Rate(r))
    \/ \E t \in LifecycleTimes : Tick(t)
    \/ \E currency \in Currencies, use_exchange_rate \in BOOLEAN :
          pay_bill_with_oracle(Payer, Payer, "m1", 4, currency, use_exchange_rate)
    \/ \E currency \in Currencies :
          pay_utility_bill(Payer, Payer, "m1", 1, "electricity", "r1", currency)

SpecOracle == Init /\ [][NextOracle]_vars

(***************************************************************************)
(* SpecBill: the billing pipeline over drawn inputs.  Every initial state  *)
(* is a state Spec's operations lead to: provider p1 registered, its       *)
(* configuration added and upgraded once to one of BillShapes, meter m1    *)
(* registered, possibly a fee registered and a price feed stored at time   *)
(* 0, and the ledger then at one of TimePoints.                            *)
(***************************************************************************)
BillFeedStores ==
    {EmptyMap} \cup {MapSet(EmptyMap, "NGN_USD", Feed(0, r)) : r \in Reliabilities}

Fee1 == [fee_id |-> "fee1", utility_type |-> "Electricity", provider_id |-> "p1",
         fee_type |-> "Processing", fee_amount |-> 3, fee_percentage |-> None,
         is_percentage |-> FALSE, is_active |-> TRUE, created_at |-> 0]

BillFeeStores == {EmptyMap, MapSet(EmptyMap, "fee1", Fee1)}

InitBill ==
    /\ now \in TimePoints
    /\ \E shape \in BillShapes :
          configs = MapSet(EmptyMap, "p1_r1",
                           [shape EXCEPT !.version = 2, !.last_updated = 0])
    /\ providers = MapSet(EmptyMap, "p1",
                          [provider_id |-> "p1", name |-> "Power Co",
                           address |-> ProviderAddr, utility_type |-> "Electricity",
                           region |-> "r1", is_active |-> TRUE,
                           registration_date |-> 0, rating |-> DefaultRating,
                           total_transactions |-> 0])
    /\ meters = MapSet(EmptyMap, "m1",
                       [meter_id |-> "m1", utility_type |-> "Electricity",
                        provider_id |-> "p1", region |-> "r1",
                        customer_address |-> Payer, installation_date |-> 0,
                        last_reading |-> 0, last_reading_date |-> 0,
                        is_active |-> TRUE, is_smart_meter |-> TRUE])
    /\ versions = MapSet(EmptyMap, "p1_r1_2",
                         [utility_type |-> "Electricity", version |-> 2,
                          config_hash |-> "hash_placeholder",
                          deployment_date |-> 0, is_active |-> TRUE,
                          migration_required |-> TRUE,
                          description |-> "Configuration upgrade"])
    /\ upgrades = MapSet(EmptyMap, "p1_r1", 1)
    /\ fees \in BillFeeStores
    /\ registry_keys = {"UT_PROVS", "UT_CONF", "UT_METERS", "UT_VERS"}
                         \cup (IF fees = EmptyMap THEN {} ELSE {"UT_FEES"})
    /\ persistent = EmptyMap
    /\ oracle_config = Some(TestOracleConfig)
    /\ oracle_admin = Admin
    /\ instance = EmptyMap
    /\ events = <<>>
    /\ oracle_cost = NewOracleCost
    /\ oracle_reliability = NewOracleReliability
    /\ user_instance = EmptyMap
    /\ user_persistent = EmptyMap
    /\ logged = EmptyMap
    /\ price_feeds \in BillFeedStores
    /\ utility_rates = EmptyMap
    /\ balance = [a \in {Payer, Contract} |-> IF a = Payer THEN BigMax ELSE 0]
    /\ payments = 0
    /\ last = NoCall

NextBill ==
    \/ \E consumption \in Consumptions, currency \in Currencies,
          apply_fees \in BOOLEAN :
          pay_multi_utility_bill(Payer, Payer, "m1", consumption, currency, apply_fees)
    \/ pay_multi_utility_bill(Admin, Payer, "m1", 2, "NGN", FALSE)
    \/ pay_multi_utility_bill(Payer, Payer, "m2", 2, "NGN", FALSE)

SpecBill == InitBill /\ [][NextBill]_vars

(***************************************************************************)
(* SpecRegistry: the registry operations from the construction state,      *)
(* called by the admin and by another address, with valid and invalid      *)
(* wire integers, and one payment.                                         *)
(***************************************************************************)
\* <<signer, admin argument>>: the admin, another address naming itself, and
\* another address naming the admin.
AuthPairs == {<<Admin, Admin>>, <<Mallory, Mallory>>, <<Mallory, Admin>>}

WireTypes == {1, 9}          \* a valid and an out-of-range wire integer

NextRegistry ==
    \/ \E auth \in AuthPairs : initialize_multi_utility(auth[1], auth[2])
    \/ \E auth \in AuthPairs, name \in {"Power Co", "Other Co"},
          utility_type \in WireTypes :
          register_provider(auth[1], auth[2], "p1", name, ProviderAddr,
                            utility_type, "r1")
    \/ \E auth \in AuthPairs, utility_type \in WireTypes \cup {2} :
          add_utility_config(auth[1], auth[2], "p1_r1", utility_type, "p1", "r1",
                             2, "NGN", 0, 5, 4, 6)
    \/ \E signer \in {ProviderAddr, Mallory}, utility_type \in WireTypes :
          register_meter(signer, signer, "m1", utility_type, "p1", Payer, TRUE)
    \/ register_meter(Mallory, ProviderAddr, "m1", 1, "p1", Payer, TRUE)
    \/ \E auth \in AuthPairs, utility_type \in WireTypes, fee_type \in WireTypes :
          add_utility_fee(auth[1], auth[2], "fee1", utility_type, "p1", fee_type,
                          3, None, FALSE)
    \/ \E auth \in AuthPairs, is_active \in BOOLEAN :
          update_provider_status(auth[1], auth[2], "p1", is_active)
    \/ \E auth \in AuthPairs, config_id \in {"p1_r1", "zz"} :
          /\ UpgradeCount("p1_r1") < MaxUpgrades
          /\ upgrade_utility_config(auth[1], auth[2], config_id, ShapePlain)
    \/ \E utility_type \in WireTypes :
          list_providers_by_type_and_region(utility_type, "r1")
    \/ pay_multi_utility_bill(Payer, Payer, "m1", 2, "NGN", FALSE)

SpecRegistry == Init /\ [][NextRegistry]_vars

(***************************************************************************)
(* SpecQuery: the read side of the registry, from the construction state:  *)
(* two providers are registered, deactivated and reactivated, and every    *)
(* query is asked with known and unknown keys.                             *)
(***************************************************************************)
NextQuery ==
    \/ initialize_multi_utility(Admin, Admin)
    \/ \E region \in {"r1", "r2"} :
          register_provider(Admin, Admin, "p1", "Power Co", ProviderAddr, 1, region)
    \/ \E utility_type \in {1, 2} :
          register_provider(Admin, Admin, "p2", "Other Co", ProviderAddr,
                            utility_type, "r1")
    \/ \E provider_id \in {"p1", "p2"}, is_active \in BOOLEAN :
          update_provider_status(Admin, Admin, provider_id, is_active)
    \/ \E provider_id \in {"p1", "zz"} : get_provider_call(provider_id)
    \/ get_utility_config_call("p1_r1")
    \/ get_meter_call("m1")
    \/ get_utility_fee_call("fee1")
    \/ get_billing_details("m1", 0)
    \/ \E utility_type \in {1, 2, 9} :
          list_providers_by_type_and_region(utility_type, "r1")

SpecQuery == Init /\ [][NextQuery]_vars

(***************************************************************************)
(* SpecTrackers: the reliability and cost trackers of the price store,     *)
(* from the construction state.                                            *)
(***************************************************************************)
ResponseTimes == {1000, 5000}
Costs == {0, 3, 1000000, 1000001}     \* the per-call limit is 1000000

NextTrackers ==
    \/ \E success \in BOOLEAN, response_time \in ResponseTimes :
          update_reliability(success, response_time)
    \/ \E cost \in Costs : track_oracle_cost(cost)

SpecTrackers == Init /\ [][NextTrackers]_vars

(***************************************************************************)
(* SpecFeeds: the price feeds of the store as the ledger time moves on.    *)
(***************************************************************************)
FeedTimes == {0, 300, 301, 700}

NextFeeds ==
    \/ \E r \in Reliabilities :
          add_price_feed(Admin, Admin, "NGN_USD", Feed(now, r))
    \/ add_price_feed(Admin, Admin, "ETH_USD", Feed(now, 90))
    \/ \E feed_id \in {"NGN_USD", "BTC_USD"}, new_price \in {15, 16},
          timestamp \in FeedTimes :
          update_price_feed(feed_id, new_price, timestamp)
    \/ \E feed_id \in {"NGN_USD", "BTC_USD"} : get_fallback_price(feed_id)
    \/ \E t \in FeedTimes : Tick(t)

SpecFeeds == Init /\ [][NextFeeds]_vars

(***************************************************************************)
(* SpecUpgrade: the upgrade subsystem from the construction state. Every   *)
(* operation is invoked by the admin and by a foreign address, and each of *)
(* them passes either address as the `admin` argument.                     *)
(***************************************************************************)
UpgradeCallers == {Admin, Mallory}
UpgradeVersions == {1, 2}
Implementations == {"impl1", "impl2"}

NextUpgrade ==
    \/ initialize_upgrade_system(Admin, Admin)
    \/ \E signer \in UpgradeCallers, admin \in UpgradeCallers :
          \/ \E new_implementation \in Implementations, new_version \in UpgradeVersions :
                UpgradeProxy_upgrade(signer, admin, new_implementation, new_version)
          \/ UpgradeProxy_migrate_data(signer, admin)
          \/ \E version \in UpgradeVersions, backward_compatible \in BOOLEAN :
                register_version(signer, admin, version, "impl2", version = 2,
                                 backward_compatible)
          \/ register_migration_script(signer, admin, 1, 2, "h1", "v1_to_v2")
          \/ \E from_version \in UpgradeVersions :
                execute_migration(signer, admin, from_version, 2)
          \/ backup_data(signer, admin)
          \/ restore_data(signer, admin, "BACKUP_0")
    \/ \E from_version \in UpgradeVersions, to_version \in UpgradeVersions :
          is_upgrade_safe(from_version, to_version)

SpecUpgrade == Init /\ [][NextUpgrade]_vars

(***************************************************************************)
(* SpecContractUpgrade: upgrade_contract and a repeated initialization     *)
(* once versions are registered.  The initial states are those SpecUpgrade *)
(* leads to after initialize_upgrade_system(admin), register_version for   *)
(* version 1 (implementation impl1) and version 2 (impl2), and, in half of *)
(* them, register_migration_script(1, 2), all invoked with the admin's     *)
(* address at time 0.                                                      *)
(***************************************************************************)
RegisteredVersion(version, implementation_address, migration_required, backward_compatible) ==
    [version |-> version, implementation_address |-> implementation_address,
     deployment_timestamp |-> 0, migration_required |-> migration_required,
     backward_compatible |-> backward_compatible]

RegistrationEvent(info) ==
    Event(<<"VERSION_REGISTERED", info.version>>,
          <<info.implementation_address, info.migration_required,
            info.backward_compatible>>)

FirstScript == [from_version |-> 1, to_version |-> 2, script_hash |-> "h1",
                description |-> "v1_to_v2"]

InitContractUpgrade ==
    /\ \E compatible1 \in BOOLEAN, compatible2 \in BOOLEAN,
          migration2 \in BOOLEAN, scripted \in BOOLEAN :
          LET v1 == RegisteredVersion(1, "impl1", FALSE, compatible1)
              v2 == RegisteredVersion(2, "impl2", migration2, compatible2)
          IN  /\ instance = [ADMIN |-> Admin, VERSION |-> 1, IMPL |-> ZeroAddress,
                             VERSIONS |-> MapSet(MapSet(EmptyMap, 1, v1), 2, v2),
                             MIGRATIONS |-> IF scripted
                                            THEN MapSet(EmptyMap, 2, <<FirstScript>>)
                                            ELSE EmptyMap]
              /\ events = <<RegistrationEvent(v1), RegistrationEvent(v2)>>
                          \o (IF scripted
                              THEN <<Event(<<"MIGRATION_REGISTERED", 1, 2>>,
                                           <<"h1", "v1_to_v2">>)>>
                              ELSE <<>>)
    /\ registry_keys = {} /\ providers = EmptyMap /\ configs = EmptyMap
    /\ fees = EmptyMap /\ meters = EmptyMap /\ versions = EmptyMap
    /\ persistent = EmptyMap
    /\ oracle_config = Some(TestOracleConfig) /\ oracle_admin = Admin
    /\ price_feeds = EmptyMap /\ utility_rates = EmptyMap
    /\ balance = [a \in {Payer, Contract} |-> IF a = Payer THEN InitialBalance ELSE 0]
    /\ now = 0 /\ payments = 0 /\ upgrades = EmptyMap
    /\ oracle_cost = NewOracleCost /\ oracle_reliability = NewOracleReliability
    /\ user_instance = EmptyMap /\ user_persistent = EmptyMap /\ logged = EmptyMap
    /\ last = NoCall

NextContractUpgrade ==
    \/ \E caller \in UpgradeCallers : initialize_upgrade_system(caller, caller)
    \/ \E signer \in UpgradeCallers, admin \in UpgradeCallers,
          new_implementation \in Implementations, new_version \in UpgradeVersions :
          upgrade_contract(signer, admin, new_implementation, new_version)

SpecContractUpgrade == InitContractUpgrade /\ [][NextContractUpgrade]_vars

(***************************************************************************)
(* SpecConsistency: two providers of different utility types, and          *)
(* configurations, meters and upgrades that name either of them with       *)
(* either type.                                                            *)
(***************************************************************************)
ConsistencyTypes == {1, 2}            \* Electricity, Water
ConsistencyProviders == {"p1", "p2"}
ConsistencyShapes == {ShapePlain,
                      [ShapePlain EXCEPT !.provider_id = "zz"],
                      [ShapePlain EXCEPT !.utility_type = "Water"]}

NextConsistency ==
    \/ register_provider(Admin, Admin, "p1", "Power Co", ProviderAddr, 1, "r1")
    \/ register_provider(Admin, Admin, "p2", "Water Co", ProviderAddr, 2, "r1")
    \/ \E utility_type \in ConsistencyTypes, provider_id \in ConsistencyProviders :
          add_utility_config(Admin, Admin, "p1_r1", utility_type, provider_id, "r1",
                             2, "NGN", 0, 5, 4, 6)
    \/ \E new_config \in ConsistencyShapes :
          /\ UpgradeCount("p1_r1") < MaxUpgrades
          /\ upgrade_utility_config(Admin, Admin, "p1_r1", new_config)
    \/ \E utility_type \in ConsistencyTypes, provider_id \in ConsistencyProviders :
          register_meter(ProviderAddr, ProviderAddr, "m1", utility_type,
                         provider_id, Payer, TRUE)
    \/ \E is_active \in BOOLEAN :
          update_provider_status(Admin, Admin, "p1", is_active)
    \/ pay_multi_utility_bill(Payer, Payer, "m1", 2, "NGN", FALSE)

SpecConsistency == Init /\ [][NextConsistency]_vars

(***************************************************************************)
(* SpecTotals: the four payment entry points and the totals pay_bill       *)
(* keeps.  Provider p1, its configuration, meter m1 and the utility rate   *)
(* are registered as in SpecLedger; the payer has made no payment yet, or  *)
(* has paid 1 token with pay_bill for the meter id "m1_0".                 *)
(***************************************************************************)
FirstTotal == [kind |-> "total", v |-> 1]
TotalMeters == {"m1", "m1_0"}

InitTotals ==
    /\ now = 0
    /\ registry_keys = {"UT_PROVS", "UT_CONF", "UT_METERS"}
    /\ providers = MapSet(EmptyMap, "p1",
                          NewProvider("p1", "Power Co", ProviderAddr,
                                      "Electricity", "r1"))
    /\ configs = MapSet(EmptyMap, "p1_r1",
                        NewConfig("Electricity", "p1", "r1", 2, "NGN", 0, 5, 4, 6))
    /\ fees = EmptyMap
    /\ meters = MapSet(EmptyMap, "m1",
                       [meter_id |-> "m1", utility_type |-> "Electricity",
                        provider_id |-> "p1", region |-> "r1",
                        customer_address |-> Payer, installation_date |-> 0,
                        last_reading |-> 0, last_reading_date |-> 0,
                        is_active |-> TRUE, is_smart_meter |-> TRUE])
    /\ versions = EmptyMap
    /\ upgrades = EmptyMap
    /\ \E paid \in BOOLEAN :
          /\ persistent = IF paid THEN MapSet(EmptyMap, "m1_0", FirstTotal)
                          ELSE EmptyMap
          /\ balance = [a \in {Payer, Contract} |->
                          IF a = Payer
                          THEN InitialBalance - (IF paid THEN 1 ELSE 0)
                          ELSE (IF paid THEN 1 ELSE 0)]
    /\ oracle_config = Some(TestOracleConfig)
    /\ oracle_admin = Admin
    /\ instance = EmptyMap
    /\ events = <<>>
    /\ oracle_cost = NewOracleCost
    /\ oracle_reliability = NewOracleReliability
    /\ user_instance = EmptyMap
    /\ user_persistent = EmptyMap
    /\ logged = EmptyMap
    /\ price_feeds = EmptyMap
    /\ utility_rates = MapSet(EmptyMap, "electricity_r1", Rate(90))
    /\ payments = 0
    /\ last = NoCall

NextTotals ==
    \/ \E consumption \in {2, 3} :
          pay_multi_utility_bill(Payer, Payer, "m1", consumption, "NGN", FALSE)
    \/ \E kwh_consumed \in {1, 2} :
          pay_utility_bill(Payer, Payer, "m1", kwh_consumed, "electricity", "r1", "NGN")
    \/ \E meter_id \in TotalMeters, amount \in {3, 4} :
          pay_bill_with_oracle(Payer, Payer, meter_id, amount, "NGN", FALSE)
    \/ \E signer \in {Payer, Mallory}, meter_id \in TotalMeters, amount \in {1, 2, 8} :
          pay_bill(signer, Payer, meter_id, amount)
    \/ \E t \in LifecycleTimes : Tick(t)

SpecTotals == InitTotals /\ [][NextTotals]_vars

(***************************************************************************)
(* SpecUsers: the user registry from the construction state, with the      *)
(* instance admin, one user and one address that is neither.               *)
(***************************************************************************)
UserAddresses == {Admin, Payer, Mallory}
Roles == {"User", "Admin"}

NextUsers ==
    \/ UserManagement_initialize(Admin, Admin)
    \/ \E signer \in {Payer, Mallory} : register(signer, Payer, "h1")
    \/ \E signer \in {Payer, Mallory} : update_profile(signer, signer, "h2")
    \/ \E signer \in UserAddresses : log_activity(signer, signer)
    \/ \E signer \in UserAddresses :
          \/ \E user \in {Payer, Admin} :
                \/ suspend_user(signer, signer, user)
                \/ unsuspend_user(signer, signer, user)
          \/ verify_user(signer, signer, Payer)
          \/ \E role \in Roles : set_role(signer, signer, Payer, role)
          \/ set_reputation(signer, signer, Payer, 5)

SpecUsers == Init /\ [][NextUsers]_vars

(***************************************************************************)
(* SpecLedger: the payment entry points once a billing record exists.      *)
(* The initial state is the one Spec's operations lead to when provider    *)
(* p1, its configuration and meter m1 are registered, the admin has stored *)
(* a utility rate, and a first pay_multi_utility_bill for consumption 2    *)
(* has gone through at time 0.                                             *)
(***************************************************************************)
FirstBillingRecord == [kind |-> "multi", data |-> <<2, 4, 0, 0, 4, 1, 1>>]

InitLedger ==
    /\ now = 0
    /\ registry_keys = {"UT_PROVS", "UT_CONF", "UT_METERS"}
    /\ providers = MapSet(EmptyMap, "p1",
                          [NewProvider("p1", "Power Co", ProviderAddr,
                                       "Electricity", "r1")
                             EXCEPT !.total_transactions = 1])
    /\ configs = MapSet(EmptyMap, "p1_r1",
                        NewConfig("Electricity", "p1", "r1", 2, "NGN", 0, 5, 4, 6))
    /\ fees = EmptyMap
    /\ meters = MapSet(EmptyMap, "m1",
                       [meter_id |-> "m1", utility_type |-> "Electricity",
                        provider_id |-> "p1", region |-> "r1",
                        customer_address |-> Payer, installation_date |-> 0,
                        last_reading |-> 0, last_reading_date |-> 0,
                        is_active |-> TRUE, is_smart_meter |-> TRUE])
    /\ versions = EmptyMap
    /\ upgrades = EmptyMap
    /\ persistent = MapSet(EmptyMap, "m1_0", FirstBillingRecord)
    /\ oracle_config = Some(TestOracleConfig)
    /\ oracle_admin = Admin
    /\ instance = EmptyMap
    /\ events = <<>>
    /\ oracle_cost = NewOracleCost
    /\ oracle_reliability = NewOracleReliability
    /\ user_instance = EmptyMap
    /\ user_persistent = EmptyMap
    /\ logged = EmptyMap
    /\ price_feeds = EmptyMap
    /\ utility_rates = MapSet(EmptyMap, "electricity_r1", Rate(90))
    /\ balance = [a \in {Payer, Contract} |-> IF a = Payer THEN InitialBalance ELSE 4]
    /\ payments = 0
    /\ last = NoCall

NextLedger ==
    \/ \E consumption \in {2, 3} :
          pay_multi_utility_bill(Payer, Payer, "m1", consumption, "NGN", FALSE)
    \/ \E kwh_consumed \in {1, 2} :
          pay_utility_bill(Payer, Payer, "m1", kwh_consumed, "electricity", "r1", "NGN")
    \/ \E meter_id \in {"m1", "m1_0"} :
          pay_bill_with_oracle(Payer, Payer, meter_id, 4, "NGN", FALSE)
    \/ \E signer \in {Payer, Mallory}, meter_id \in {"m1", "m1_0"}, amount \in {1, 2} :
          pay_bill(signer, Payer, meter_id, amount)
    \/ \E t \in LifecycleTimes : Tick(t)
    \/ \E timestamp \in LifecycleTimes : get_billing_details("m1", timestamp)

SpecLedger == InitLedger /\ [][NextLedger]_vars

(***************************************************************************)
(* Properties of the lifecycle (Spec).                                     *)
(***************************************************************************)
IsPayMulti == last.op = "pay_multi_utility_bill"

\* The configuration a priced call resolved.
UsedConfig == configs[last.config_id]

\* C1: a call to pay_multi_utility_bill that does not succeed, whatever the
\* reason (meter, configuration, exchange rate, payment limits, the transfer),
\* leaves the registry with the providers' total_transactions, every billing
\* record and the token balances exactly as they were before the call.
FailedPayChangesNothing ==
    [][(last'.op = "pay_multi_utility_bill" /\ last'.result # "Ok")
          => UNCHANGED <<registry_keys, providers, configs, fees, meters,
                         versions, persistent, balance>>]_vars

\* A transfer that fails after an earlier payment was recorded and counted.
FailedTransferAfterPayment ==
    /\ IsPayMulti
    /\ last.result = "panic: transfer"
    /\ payments = 1
    /\ persistent # EmptyMap
    /\ providers["p1"].total_transactions = 1

\* C2: when the configuration's currency differs from the requested one and
\* the price feed is older than max_age_seconds, pay_multi_utility_bill fails
\* and transfers nothing: no payment completes with an amount converted by a
\* stale price.
StalePriceNeverUsed ==
    (/\ IsPayMulti
     /\ last.priced
     /\ UsedConfig.currency # last.currency
     /\ get_price_feed(Fmt(UsedConfig.currency, last.currency)).some
     /\ last.timestamp
          - get_price_feed(Fmt(UsedConfig.currency, last.currency)).v.last_updated
        > oracle_config.v.max_age_seconds)
    => /\ last.result # "Ok"
       /\ balance = last.balance_before

PaymentOps == {"pay_bill_with_oracle", "pay_utility_bill", "pay_multi_utility_bill"}

\* C3: no payment operation completes a transfer of an amount computed from a
\* price feed or utility rate whose reliability_score is below
\* min_reliability_score, and a call that needs a feed the store does not hold
\* fails with ExchangeRateUnavailable.
UnreliableDatumNeverUsed ==
    /\ (last.op \in PaymentOps /\ last.result = "Ok" /\ last.feed_id # "")
         => price_feeds[last.feed_id].reliability_score
              >= oracle_config.v.min_reliability_score
    /\ (last.op \in PaymentOps /\ last.result = "Ok" /\ last.rate_id # "")
         => utility_rates[last.rate_id].reliability_score
              >= oracle_config.v.min_reliability_score
    /\ (/\ IsPayMulti
        /\ last.priced
        /\ UsedConfig.currency # last.currency
        /\ ~get_price_feed(Fmt(UsedConfig.currency, last.currency)).some)
         => last.result = "Exchange rate not available"

\* The version-history keys of a configuration id.
HistoryEntries(config_id) ==
    {k \in DOMAIN versions :
        \E v \in 1..(MaxUpgrades + 2) : k = Fmt(config_id, ToString(v))}

\* C4: for every registered configuration the stored version after N
\* successful upgrade_utility_config calls is 1 + N, and the N upgrades leave
\* N version-history entries for it, one new entry per upgrade.
VersionCountsUpgrades ==
    /\ \A id \in DOMAIN configs : configs[id].version = 1 + UpgradeCount(id)
    /\ \A id \in DOMAIN configs :
          Cardinality(HistoryEntries(id)) = UpgradeCount(id)
    /\ (last.op = "upgrade_utility_config" /\ last.result = "Ok") => last.new_key

\* C5: every add_utility_config or upgrade_utility_config call that changes the
\* stored configuration of an id strictly increases that id's version; a
\* stored version never decreases and is never reset.
VersionStrictlyIncreases ==
    (/\ last.op \in {"add_utility_config", "upgrade_utility_config"}
     /\ last.result = "Ok"
     /\ last.existed
     /\ last.changed)
    => configs[last.config_id].version > last.old_version

(***************************************************************************)
(* Properties of the billing pipeline (SpecBill).                          *)
(***************************************************************************)

\* C6: every successful pay_multi_utility_bill transfers a final_amount with
\* minimum_payment <= final_amount <= maximum_payment of the configuration
\* used; an amount below the minimum or above the maximum is rejected, and an
\* amount equal to the minimum or to the maximum is accepted.
PaymentWithinLimits ==
    (IsPayMulti /\ last.priced /\ last.bill.conv_ok) =>
        LET final_amount == last.bill.final_amount
            within == /\ UsedConfig.minimum_payment <= final_amount
                      /\ final_amount <= UsedConfig.maximum_payment
        IN  /\ last.result = "Ok" => within
            /\ final_amount < UsedConfig.minimum_payment
                 => last.result = "Amount below minimum payment"
            /\ (/\ final_amount >= UsedConfig.minimum_payment
                /\ final_amount > UsedConfig.maximum_payment)
                 => last.result = "Amount exceeds maximum payment"
            /\ within => last.result \in {"Ok", "panic: transfer"}
            /\ last.result = "Ok" =>
                 /\ balance[Contract] = last.balance_before[Contract] + final_amount
                 /\ balance[last.from] = last.balance_before[last.from] - final_amount

\* A payment of exactly the minimum went through.
PaidExactlyMinimum ==
    /\ IsPayMulti
    /\ last.result = "Ok"
    /\ last.bill.final_amount = UsedConfig.minimum_payment
    /\ UsedConfig.minimum_payment < UsedConfig.maximum_payment
    /\ balance[Contract] = UsedConfig.minimum_payment

\* The tiers of the configuration used that contain the consumption.
MatchingTiers ==
    {i \in 1..Len(UsedConfig.tier_rates) :
        /\ last.consumption >= UsedConfig.tier_rates[i].min_units
        /\ last.consumption <= UsedConfig.tier_rates[i].max_units}

\* C7: the tiers are scanned in stored order and the base amount becomes
\* consumption * rate_per_unit of the first tier containing the consumption,
\* also when a later tier contains it too; when no tier contains it the base
\* amount stays consumption * base_rate.
FirstMatchingTierApplies ==
    (IsPayMulti /\ last.priced) =>
        IF MatchingTiers = {}
        THEN last.bill.tier_base = last.consumption * UsedConfig.base_rate
        ELSE \E i \in MatchingTiers :
                /\ \A j \in MatchingTiers : i <= j
                /\ last.bill.tier_base
                     = last.consumption * UsedConfig.tier_rates[i].rate_per_unit

\* A paid consumption that lies in two tiers with different rates; the record
\* shows the amount of the earlier one.
PaidInOverlappingTiers ==
    /\ IsPayMulti
    /\ last.result = "Ok"
    /\ Cardinality(MatchingTiers) = 2
    /\ \E i, j \in MatchingTiers :
          UsedConfig.tier_rates[i].rate_per_unit
            # UsedConfig.tier_rates[j].rate_per_unit
    /\ persistent[Fmt(last.meter_id, ToString(last.timestamp))].data[2]
         = last.consumption * UsedConfig.tier_rates[1].rate_per_unit

\* The time-of-use rules of the configuration used whose window holds the
\* hour and the weekday of the call.
MatchingTouRules ==
    LET hour    == (last.timestamp \div 3600) % 24
        weekday == (last.timestamp \div 86400) % 7
    IN  {i \in 1..Len(UsedConfig.time_of_use_rates) :
            /\ hour >= UsedConfig.time_of_use_rates[i].start_hour
            /\ hour <= UsedConfig.time_of_use_rates[i].end_hour
            /\ weekday \in UsedConfig.time_of_use_rates[i].days_of_week}

\* C8: with hour = (now / 3600) % 24 and weekday = (now / 86400) % 7, a
\* timestamp that falls in exactly one time-of-use rule yields
\* base_amount * rate_multiplier / 100 (integer division), applied once, and a
\* timestamp that matches no rule leaves the base amount unchanged.
TimeOfUseAppliedOnce ==
    (IsPayMulti /\ last.priced) =>
        /\ MatchingTouRules = {} => last.bill.base_amount = last.bill.tier_base
        /\ \A i \in MatchingTouRules :
              MatchingTouRules = {i} =>
                 last.bill.base_amount
                   = TruncDiv(last.bill.tier_base
                                * UsedConfig.time_of_use_rates[i].rate_multiplier,
                              100)

\* A call in the window of exactly one rule, with a quotient that is cut.
PricedInOneTouWindow ==
    /\ IsPayMulti
    /\ last.priced
    /\ Cardinality(MatchingTouRules) = 1
    /\ Len(UsedConfig.time_of_use_rates) > 1
    /\ \E i \in MatchingTouRules :
          (last.bill.tier_base * UsedConfig.time_of_use_rates[i].rate_multiplier)
             % 100 # 0
    /\ last.bill.base_amount # last.bill.tier_base

\* States of the price store at time t: empty, or one feed that is fresh or
\* stale, reliable or not, for the USD pair or for the currency itself.
PriceStoreStates(t) ==
    {EmptyMap} \cup
    {MapSet(EmptyMap, feed_id, Feed(last_updated, reliability_score)) :
        feed_id \in {"NGN_USD", "NGN_NGN"}, last_updated \in {0, t},
        reliability_score \in Reliabilities}

\* C9: when the configuration's currency is the requested currency the final
\* amount is the subtotal, and the outcome of the call (its result, the amounts
\* transferred and recorded) is the same whether the price store holds no
\* feed, a stale feed, an unreliable feed or a fresh feed.
SameCurrencyIgnoresPriceStore ==
    (IsPayMulti /\ last.priced /\ UsedConfig.currency = last.currency) =>
        /\ last.bill.conv_ok
        /\ last.bill.final_amount = last.bill.subtotal
        /\ \A feed_store \in PriceStoreStates(last.timestamp) :
              LET other == PayMultiOutcome(last.signer, last.from, last.meter_id,
                                           last.consumption, last.currency,
                                           last.apply_fees, feed_store,
                                           last.balance_before)
              IN  other.result = last.result /\ other.bill = last.bill

\* A same-currency payment made while the store held a stale, unreliable feed.
PaidSameCurrencyOverBadFeed ==
    /\ IsPayMulti
    /\ last.result = "Ok"
    /\ UsedConfig.currency = last.currency
    /\ "NGN_USD" \in DOMAIN price_feeds
    /\ price_feeds["NGN_USD"].reliability_score
         < oracle_config.v.min_reliability_score
    /\ last.timestamp - price_feeds["NGN_USD"].last_updated
         > oracle_config.v.max_age_seconds

\* The active fees registered for a provider and utility type.
RegisteredFees(provider_id, utility_type) ==
    {id \in DOMAIN fees :
        /\ fees[id].provider_id = provider_id
        /\ fees[id].utility_type = utility_type
        /\ fees[id].is_active}

\* Fixed amounts plus percentage amounts of `amount`, over the fees in ids.
RECURSIVE SumOfFees(_, _)
SumOfFees(ids, amount) ==
    IF ids = {} THEN 0
    ELSE LET id == CHOOSE x \in ids : TRUE
         IN  (IF fees[id].is_percentage /\ fees[id].fee_percentage.some
              THEN TruncDiv(amount * fees[id].fee_percentage.v, 100)
              ELSE fees[id].fee_amount)
             + SumOfFees(ids \ {id}, amount)

\* C10: in a payment made with apply_fees = true the fee amount is the sum over the fees
\* registered for the meter's provider and utility type; when none is
\* registered the fee amount is 0 and the subtotal is base_amount + tax_amount.
FeeIsSumOfRegisteredFees ==
    (IsPayMulti /\ last.result = "Ok" /\ last.apply_fees) =>
        LET meter == meters[last.meter_id]
            registered == RegisteredFees(meter.provider_id, meter.utility_type)
        IN  /\ last.bill.fee_amount
                 = SumOfFees(registered,
                             last.bill.base_amount + last.bill.tax_amount)
            /\ registered = {} =>
                 /\ last.bill.fee_amount = 0
                 /\ last.bill.subtotal
                      = last.bill.base_amount + last.bill.tax_amount

\* The contribution of one tax to a bill: its percentage of `basis`, cut to
\* max_amount when the tax carries one.
CappedTax(tax, basis) ==
    LET amount == TruncDiv(basis * tax.rate_percentage, 100)
    IN  IF tax.max_amount.some /\ amount > tax.max_amount.v
        THEN tax.max_amount.v ELSE amount

\* The taxes from position i on, where `running` is base_amount plus the
\* compounding taxes already applied.
RECURSIVE TaxesWithCompoundAndCap(_, _, _, _)
TaxesWithCompoundAndCap(tax_rates, i, base_amount, running) ==
    IF i > Len(tax_rates) THEN 0
    ELSE LET tax == tax_rates[i]
             contribution == CappedTax(tax, IF tax.is_compound THEN running
                                            ELSE base_amount)
         IN  contribution
             + TaxesWithCompoundAndCap(tax_rates, i + 1, base_amount,
                   IF tax.is_compound THEN running + contribution ELSE running)

\* C11: the tax amount of a payment honours every tax's compound flag and cap:
\* a compounding tax applies to the running subtotal with the compounding
\* taxes before it, a non-compound tax applies to base_amount, and no tax
\* contributes more than its max_amount.
TaxHonoursCompoundAndCap ==
    (IsPayMulti /\ last.result = "Ok") =>
        last.bill.tax_amount
          = TaxesWithCompoundAndCap(UsedConfig.tax_rates, 1,
                                    last.bill.base_amount, last.bill.base_amount)

(***************************************************************************)
(* Properties of upgrade_utility_config (Spec).                            *)
(***************************************************************************)

\* C20: a successful upgrade_utility_config stores a version record with the
\* old configuration's utility type, version old + 1 and migration_required
\* true, and replaces the live configuration by new_config with version
\* old + 1 and last_updated = now, whatever version and last_updated new_config
\* carried; an upgrade of an unknown config_id fails and changes neither the
\* configurations nor the version history.
UpgradeSnapshotsAndReplaces ==
    [][last'.op = "upgrade_utility_config" =>
         IF last'.config_id \in DOMAIN configs
         THEN last'.result = "Ok" =>
                LET old == configs[last'.config_id]
                    key == Fmt(last'.config_id, ToString(old.version + 1))
                IN  /\ key \in DOMAIN versions'
                    /\ versions'[key].utility_type = old.utility_type
                    /\ versions'[key].version = old.version + 1
                    /\ versions'[key].migration_required
                    /\ \A k \in DOMAIN versions : k # key => versions'[k] = versions[k]
                    /\ DOMAIN versions' = DOMAIN versions \cup {key}
                    /\ configs' = [configs EXCEPT ![last'.config_id] =
                                     [last'.new_config EXCEPT
                                         !.version = old.version + 1,
                                         !.last_updated = now]]
         ELSE /\ last'.result # "Ok"
              /\ UNCHANGED <<configs, versions>>]_vars

\* An upgrade went through at a later time with a new_config whose own version
\* and timestamp are not the ones stored.
UpgradedWithForeignVersion ==
    /\ last.op = "upgrade_utility_config"
    /\ last.result = "Ok"
    /\ now > 0
    /\ last.new_config.version # configs[last.config_id].version
    /\ last.new_config.last_updated # configs[last.config_id].last_updated
    /\ configs[last.config_id].version = last.old_version + 1
    /\ configs[last.config_id].last_updated = now

(***************************************************************************)
(* Properties of the registry operations (SpecRegistry).                   *)
(***************************************************************************)
\* C14: registering a provider id that is already registered fails, with
\* "Provider already registered" when the call is authorised and its utility
\* type is valid, and leaves the stored providers exactly as they were.
RegisterExistingProviderFails ==
    [][(/\ last'.op = "register_provider"
        /\ last'.provider_id \in DOMAIN providers)
       => /\ last'.result # "Ok"
          /\ providers' = providers
          /\ (/\ require_auth(last'.admin, last'.signer)
              /\ UtilityType_from_u8(last'.utility_type).ok)
             => last'.result = "Provider already registered"]_vars

\* A second registration under another name was refused and the first
\* provider is still the one stored.
SecondRegistrationRefused ==
    /\ last.op = "register_provider"
    /\ last.result = "Provider already registered"
    /\ "p1" \in DOMAIN providers
    /\ providers["p1"].name = "Other Co"

\* The registry operations that take an `admin` argument.
AdminOps == {"register_provider", "add_utility_config", "add_utility_fee",
             "update_provider_status", "upgrade_utility_config"}

registryVars == <<registry_keys, providers, configs, fees, meters, versions>>

\* C15: register_provider, add_utility_config, add_utility_fee,
\* update_provider_status and upgrade_utility_config change the registry
\* only when the caller is the admin address recorded at initialization.
OnlyRecordedAdminChangesRegistry ==
    [][(/\ last'.op \in AdminOps
        /\ registryVars' # registryVars)
       => last'.signer = oracle_admin]_vars

\* C16: a registered provider is never deleted, and only its is_active and
\* total_transactions fields ever differ from their values at registration.
ProviderNeverDeleted ==
    [][\A id \in DOMAIN providers :
          /\ id \in DOMAIN providers'
          /\ [providers'[id] EXCEPT !.is_active = TRUE, !.total_transactions = 0]
               = [providers[id] EXCEPT !.is_active = TRUE, !.total_transactions = 0]]_vars

\* The call recorded in `call` got past authorization and enum validation.
Admitted(call) ==
    /\ call.result # "panic"
    /\ UtilityType_from_u8(call.utility_type).ok

\* C17: add_utility_config stores a configuration only if the named provider
\* exists, is active and has the requested utility type; otherwise it fails
\* ("Provider not found", "Provider is not active", "Utility type mismatch")
\* and the configuration map is unchanged.  A stored configuration has
\* version 1, is active and carries the default late-fee policy.
AddConfigNeedsActiveMatchingProvider ==
    [][(last'.op = "add_utility_config") =>
       LET call == last'
           pid == call.provider_id
           exists == pid \in DOMAIN providers
           type_ok == UtilityType_from_u8(call.utility_type).ok
       IN  /\ (call.result # "Ok") => configs' = configs
           /\ (call.result = "Ok") =>
                 /\ exists /\ providers[pid].is_active /\ type_ok
                 /\ UtilityType_to_u8(providers[pid].utility_type) = call.utility_type
                 /\ configs'[call.config_id].version = 1
                 /\ configs'[call.config_id].is_active
                 /\ configs'[call.config_id].late_fee_config.flat_fee = 1000000
                 /\ configs'[call.config_id].late_fee_config.percentage_fee = 500
                 /\ configs'[call.config_id].late_fee_config.max_fee = 10000000
                 /\ ~configs'[call.config_id].late_fee_config.compound_daily
           /\ (Admitted(call) /\ ~exists)
                 => call.result \in {"Provider not found", "No providers registered"}
           /\ (Admitted(call) /\ exists /\ ~providers[pid].is_active)
                 => call.result = "Provider is not active"
           /\ (/\ Admitted(call) /\ exists /\ providers[pid].is_active
               /\ UtilityType_to_u8(providers[pid].utility_type) # call.utility_type)
                 => call.result = "Utility type mismatch"]_vars

\* A configuration was refused because its provider had been deactivated.
ConfigRefusedForInactiveProvider ==
    /\ last.op = "add_utility_config"
    /\ last.result = "Provider is not active"
    /\ "p1" \in DOMAIN providers
    /\ ~providers["p1"].is_active

\* C18: register_meter stores a meter only if the caller is the address on
\* record for the named provider, that provider is active and the meter id
\* is unused; otherwise it fails and the meter map is unchanged, so a stored
\* meter is never overwritten and was registered by its provider's address.
MeterRegisteredByItsProvider ==
    [][(last'.op = "register_meter") =>
       LET call == last'
           pid == call.provider_id
       IN  /\ (call.result # "Ok") => meters' = meters
           /\ (call.result = "Ok") =>
                 /\ pid \in DOMAIN providers
                 /\ providers[pid].address = call.signer
                 /\ providers[pid].is_active
                 /\ call.meter_id \notin DOMAIN meters
                 /\ meters'[call.meter_id].provider_id = pid
           /\ \A id \in DOMAIN meters :
                 id \in DOMAIN meters' /\ meters'[id] = meters[id]]_vars

\* Another address, authorising for itself, asked to register a meter for
\* an active provider and was refused.
MeterRefusedForForeignCaller ==
    /\ last.op = "register_meter"
    /\ last.signer = Mallory
    /\ last.provider_address = Mallory
    /\ last.result = "Unauthorized provider"
    /\ providers["p1"].is_active
    /\ "m1" \notin DOMAIN meters

WireIntegers == 0..255       \* the values of a u8

\* The operations that take a utility_type wire integer.
EnumOps == {"register_provider", "add_utility_config", "register_meter",
            "add_utility_fee", "list_providers_by_type_and_region"}

\* from_u8 succeeds exactly on 1..8 and to_u8 gives the integer back.
EnumRoundTrip ==
    \A v \in WireIntegers :
        /\ UtilityType_from_u8(v).ok <=> (1 <= v /\ v <= 8)
        /\ UtilityType_from_u8(v).ok => UtilityType_to_u8(UtilityType_from_u8(v).tag) = v
        /\ FeeType_from_u8(v).ok <=> (1 <= v /\ v <= 8)
        /\ FeeType_from_u8(v).ok => FeeType_to_u8(FeeType_from_u8(v).tag) = v

PaidOnMeterOf(id) ==
    /\ last'.op = "pay_multi_utility_bill"
    /\ last'.result = "Ok"
    /\ meters[last'.meter_id].provider_id = id

BillingRecordImmutable ==
    [][\A key \in DOMAIN persistent :
          persistent[key].kind \in {"multi", "utility"}
            => /\ key \in DOMAIN persistent'
               /\ persistent'[key] = persistent[key]]_vars

(***************************************************************************)
(* Properties of the queries (SpecQuery).                                  *)
(***************************************************************************)
\* What each point lookup reads.
StoredKeys(op) ==
    IF op = "get_provider" THEN DOMAIN providers
    ELSE IF op = "get_utility_config" THEN DOMAIN configs
    ELSE IF op = "get_meter" THEN DOMAIN meters
    ELSE IF op = "get_utility_fee" THEN DOMAIN fees
    ELSE DOMAIN persistent

PointQueries == {"get_provider", "get_utility_config", "get_meter",
                 "get_utility_fee", "get_billing_details"}

\* The registered providers a scan for (utility_type, region) has to return.
ActiveMatches(utility_type, region) ==
    {id \in DOMAIN providers :
        /\ UtilityType_to_u8(providers[id].utility_type) = utility_type
        /\ providers[id].region = region
        /\ providers[id].is_active}

\* C21: read-side queries never fail for missing keys, in every reachable
\* state: the point lookups return an absent result for an unknown key,
\* list_providers_by_type_and_region with a valid utility type returns an
\* empty result when nothing matches, and none of them changes state.
QueriesNeverFailOnMissingKeys ==
    [][/\ (last'.op \in PointQueries) =>
             /\ UNCHANGED <<registryVars, persistent, oracleVars, balance, now,
                           instance, events, oracle_cost, oracle_reliability, userVars>>
             /\ (last'.key \notin StoredKeys(last'.op))
                   => last'.result = "Ok" /\ last'.value = None
       /\ (/\ last'.op = "list_providers_by_type_and_region"
           /\ last'.utility_type \in 1..8) =>
             /\ UNCHANGED <<registryVars, persistent, oracleVars, balance, now,
                           instance, events, oracle_cost, oracle_reliability, userVars>>
             /\ (ActiveMatches(last'.utility_type, last'.region) = {})
                   => last'.result = "Ok" /\ last'.found = <<>>]_vars

\* C22: list_providers_by_type_and_region(t, r) returns exactly the
\* registered providers of type t and region r whose is_active flag is
\* currently true, each once.
ListReturnsActiveMatches ==
    (/\ last.op = "list_providers_by_type_and_region"
     /\ last.utility_type \in 1..8)
    => /\ last.result = "Ok"
       /\ {last.found[i] : i \in DOMAIN last.found}
            = {providers[id] : id \in ActiveMatches(last.utility_type, last.region)}
       /\ Len(last.found)
            = Cardinality(ActiveMatches(last.utility_type, last.region))

(***************************************************************************)
(* Properties of get_billing_details (SpecLedger).                         *)
(***************************************************************************)
\* C23: after a payment that persisted a billing record for meter m at
\* ledger timestamp t (pay_utility_bill or pay_multi_utility_bill),
\* get_billing_details(m, t) returns that record; for a (meter, timestamp)
\* pair at which no payment was made it returns absent.
BillingDetailsReturnRecord ==
    (last.op = "get_billing_details")
    => /\ last.result = "Ok"
       /\ last.value = IF last.key \in DOMAIN persistent
                          /\ persistent[last.key].kind \in {"multi", "utility"}
                       THEN Some(persistent[last.key].data)
                       ELSE None

(***************************************************************************)
(* Properties of the event log (Spec).                                     *)
(***************************************************************************)
\* The state-mutating calls of the registry, the pipeline and the price store.
MutatingOps == {"register_provider", "add_utility_config", "register_meter",
                "add_utility_fee", "update_provider_status",
                "upgrade_utility_config", "pay_multi_utility_bill",
                "add_price_feed", "update_price_feed", "add_utility_rate",
                "update_utility_rate"}

\* C24: every successful state-mutating call appends an event carrying the
\* operation name and its key arguments to the event log, and events already
\* in the log are never removed or altered.
MutatingCallsAppendEvents ==
    [][/\ Len(events') >= Len(events)
       /\ SubSeq(events', 1, Len(events)) = events
       /\ (last'.op \in MutatingOps /\ last'.result = "Ok")
          => /\ Len(events') = Len(events) + 1
             /\ events'[Len(events')].topics[1] = last'.op]_vars

(***************************************************************************)
(* Properties of the trackers (SpecTrackers).                              *)
(***************************************************************************)
\* C25: the reliability score is 50 after initialization and stays within
\* [0, 100] after any sequence of update_reliability calls; a successful
\* call never lowers it and a failed call never raises it.
ReliabilityScoreBounded ==
    [][/\ (oracle_reliability.total_calls = 0) => oracle_reliability.score = 50
       /\ 0 <= oracle_reliability'.score /\ oracle_reliability'.score <= 100
       /\ (last'.op = "update_reliability" /\ last'.success)
          => oracle_reliability'.score >= oracle_reliability.score
       /\ (last'.op = "update_reliability" /\ ~last'.success)
          => oracle_reliability'.score <= oracle_reliability.score]_vars

\* Six failed calls in a row from the neutral score: the score has stopped
\* at 0.
SixFailuresReachFloor ==
    /\ last.op = "update_reliability"
    /\ oracle_reliability.failed_calls = 6
    /\ oracle_reliability.total_calls = 6
    /\ oracle_reliability.score = 0

\* C26: track_oracle_cost(c) with c above cost_limit_per_call fails with
\* "Cost exceeds limit per call" and leaves the cost tracker unchanged;
\* otherwise it adds c to total_spent and 1 to calls_made, and
\* average_cost_per_call is total_spent / calls_made.
CostTrackerAccumulates ==
    [][/\ (last'.op = "track_oracle_cost") =>
             IF last'.cost > oracle_config.v.cost_limit_per_call
             THEN /\ last'.result = "Cost exceeds limit per call"
                  /\ oracle_cost' = oracle_cost
             ELSE /\ last'.result = "Ok"
                  /\ oracle_cost'.total_spent = oracle_cost.total_spent + last'.cost
                  /\ oracle_cost'.calls_made = oracle_cost.calls_made + 1
       /\ (oracle_cost'.calls_made > 0)
          => oracle_cost'.average_cost_per_call
               = oracle_cost'.total_spent \div oracle_cost'.calls_made]_vars

\* A cost above the limit was refused after two accepted costs, 3 and
\* 1000000, whose sum and count the tracker holds.
CostRefusedAfterTwoAccepted ==
    /\ last.op = "track_oracle_cost"
    /\ last.cost = 1000001
    /\ last.result = "Cost exceeds limit per call"
    /\ oracle_cost = [total_spent |-> 1000003, calls_made |-> 2,
                      average_cost_per_call |-> 500001]

(***************************************************************************)
(* Properties of the price feeds (SpecFeeds).                              *)
(***************************************************************************)
\* C27: update_price_feed on an existing feed with a timestamp older than
\* the stored last_updated by more than max_age_seconds fails with "Data too
\* old" and leaves the stored price and last_updated unchanged; an accepted
\* update sets the stored price and last_updated to exactly the supplied
\* values and changes no other feed.
StaleUpdateRefused ==
    [][(/\ last'.op = "update_price_feed"
        /\ last'.feed_id \in DOMAIN price_feeds) =>
       LET stored == price_feeds[last'.feed_id]
       IN  /\ (stored.last_updated - last'.timestamp
                  > oracle_config.v.max_age_seconds)
              => /\ last'.result = "Data too old"
                 /\ price_feeds' = price_feeds
           /\ (last'.result = "Ok")
              => /\ price_feeds'[last'.feed_id].price = last'.new_price
                 /\ price_feeds'[last'.feed_id].last_updated = last'.timestamp
                 /\ DOMAIN price_feeds' = DOMAIN price_feeds
                 /\ \A other \in DOMAIN price_feeds \ {last'.feed_id} :
                       price_feeds'[other] = price_feeds[other]]_vars

\* An update stamped 0 was refused for a feed last updated at 301, one
\* second past the maximum age of 300, while another feed is stored.
UpdateRefusedOneSecondPastMaxAge ==
    /\ last.op = "update_price_feed"
    /\ last.feed_id = "NGN_USD"
    /\ last.timestamp = 0
    /\ last.result = "Data too old"
    /\ price_feeds["NGN_USD"].last_updated = 301
    /\ "ETH_USD" \in DOMAIN price_feeds

GuardedUpgradeOps == {"UpgradeProxy::upgrade", "UpgradeProxy::migrate_data",
                      "VersionManager::register_version",
                      "DataMigration::register_migration_script",
                      "DataMigration::execute_migration",
                      "DataMigration::backup_data",
                      "DataMigration::restore_data"}

\* C29: in the upgrade subsystem a caller different from the stored admin
\* gets UNAUTHORIZED from upgrade, migrate_data, register_version,
\* register_migration_script, execute_migration, backup_data and
\* restore_data, and such a call changes no state.
ForeignUpgradeCallerRefused ==
    [][(/\ last'.op \in GuardedUpgradeOps
        /\ "ADMIN" \in DOMAIN instance
        /\ last'.signer # instance["ADMIN"])
       => (/\ last'.result = "UNAUTHORIZED"
           /\ instance' = instance
           /\ events' = events)]_vars

\* C30: is_upgrade_safe(from, to) fails with a not-found error when either
\* version is unregistered; when both are registered it returns false
\* exactly when the target version is not backward compatible and
\* from < to, and true otherwise.
UpgradeSafetyAnswer ==
    last.op = "VersionManager::is_upgrade_safe" =>
        IF \/ last.from_version \notin DOMAIN VersionRegistry
           \/ last.to_version \notin DOMAIN VersionRegistry
        THEN last.result \in {"FROM_VERSION_NOT_FOUND", "TO_VERSION_NOT_FOUND"}
        ELSE /\ last.result = "Ok"
             /\ last.value = FALSE
                  <=> (/\ ~VersionRegistry[last.to_version].backward_compatible
                       /\ last.from_version < last.to_version)

\* A downgrade from version 2 to a version 1 that is not backward compatible
\* was answered with true.
DowngradeToIncompatibleVersionSafe ==
    /\ last.op = "VersionManager::is_upgrade_safe"
    /\ last.result = "Ok"
    /\ last.from_version = 2
    /\ last.to_version = 1
    /\ ~VersionRegistry[1].backward_compatible
    /\ last.value = TRUE

\* The user has registered: register stored a profile for the address.
Registered(user) == DataKey("UserProfile", user) \in DOMAIN user_persistent

\* The user's status entry says suspended.
Suspended(user) ==
    /\ DataKey("UserStatus", user) \in DOMAIN user_persistent
    /\ ~user_persistent[DataKey("UserStatus", user)]

\* The operations a user performs on its own account.
OwnOps == {"log_activity", "update_profile"}

\* C31: in the user registry get_activity_count(user) equals the number of
\* log_activity calls by that user that succeeded since registration;
\* log_activity and update_profile by a user who is suspended or was never
\* registered fail and change nothing, and they succeed for a registered
\* user who is not suspended (in particular after unsuspend_user).
ActivityCountsActiveRegisteredUsers ==
    [][/\ \A user \in DOMAIN logged' :
            UserGet(DataKey("UserActivity", user), 0)' = logged'[user]
       /\ (/\ last'.op \in OwnOps
           /\ (Suspended(last'.user) \/ ~Registered(last'.user)))
          => (last'.result # "Ok" /\ userVars' = userVars)
       /\ (/\ last'.op \in OwnOps
           /\ last'.signer = last'.user
           /\ Registered(last'.user)
           /\ ~Suspended(last'.user))
          => last'.result = "Ok"]_vars

\* The privileged operations of the user registry.
PrivilegedOps == {"verify_user", "set_role", "set_reputation", "suspend_user",
                  "unsuspend_user"}

\* The operations of the user registry that write storage.
UserOps == PrivilegedOps \cup OwnOps \cup {"register"}

\* The address is the instance admin or holds the Admin role.
HoldsAdmin(addr) ==
    \/ ("Admin" \in DOMAIN user_instance /\ user_instance["Admin"] = addr)
    \/ UserGet(DataKey("UserRole", addr), "None") = "Admin"

\* C40: verify_user, set_role, set_reputation, suspend_user and
\* unsuspend_user change state only when the caller is the instance admin or
\* currently holds the Admin role, and is not suspended; a suspended account
\* performs no state-changing operation until it is unsuspended.
OnlyActiveAdminsUsePrivilegedOps ==
    [][/\ (last'.op \in PrivilegedOps /\ userVars' # userVars)
          => (HoldsAdmin(last'.signer) /\ ~Suspended(last'.signer))
       /\ (last'.op \in UserOps /\ userVars' # userVars)
          => ~Suspended(last'.signer)]_vars

\* The entries of the proxy: version, implementation, old implementation.
ProxyState ==
    [k \in DOMAIN instance \cap {"VERSION", "IMPL", "OLD_IMPL"} |-> instance[k]]

\* The entries the upgrade admin guards.
GuardedState ==
    [k \in DOMAIN instance \cap {"ADMIN", "VERSION", "IMPL", "VERSIONS", "MIGRATIONS"}
        |-> instance[k]]

\* The operations that replace the proxy's implementation.
UpgradingOps == {"UpgradeProxy::upgrade", "upgrade_contract"}

\* C32: once initialize_upgrade_system has run, the stored upgrade admin
\* never changes, the proxy's version and implementation change only through
\* an upgrade invoked with the stored admin's address, and no call made by
\* an address other than the stored admin, a repeated initialize included,
\* changes the admin, the version, the implementation or the registries.
UpgradeAdminFixedOnceInitialized ==
    []["ADMIN" \in DOMAIN instance =>
          /\ "ADMIN" \in DOMAIN instance' /\ instance'["ADMIN"] = instance["ADMIN"]
          /\ ProxyState' # ProxyState
                => (last'.op \in UpgradingOps /\ last'.admin = instance["ADMIN"])
          /\ last'.signer # instance["ADMIN"] => GuardedState' = GuardedState]_vars

ProxyMatchesRegisteredVersion ==
    (last.op = "upgrade_contract" /\ last.result = "Ok") =>
        /\ get_contract_version \in DOMAIN VersionRegistry
        /\ instance["IMPL"]
             = VersionRegistry[get_contract_version].implementation_address

\* C35: the version reported by get_contract_version never decreases over
\* upgrade_contract and UpgradeProxy::upgrade calls made after
\* initialization.
ContractVersionNeverDecreases ==
    [][(last'.op \in UpgradingOps /\ "VERSION" \in DOMAIN instance)
          => get_contract_version' >= get_contract_version]_vars

\* C36: in every reachable state each stored utility configuration names a
\* registered provider whose utility type equals the configuration's
\* utility type, after add_utility_config and after upgrade_utility_config
\* with an arbitrary new_config.
ConfigNamesProviderOfItsType ==
    \A config_id \in DOMAIN configs :
        /\ configs[config_id].provider_id \in DOMAIN providers
        /\ providers[configs[config_id].provider_id].utility_type
             = configs[config_id].utility_type

\* C37: in every reachable state each registered meter's utility type
\* equals the utility type of the provider named by its provider_id.
MeterTypeIsProviderType ==
    \A meter_id \in DOMAIN meters :
        /\ meters[meter_id].provider_id \in DOMAIN providers
        /\ providers[meters[meter_id].provider_id].utility_type
             = meters[meter_id].utility_type

\* C38: while a provider is inactive no pay_multi_utility_bill on any of its
\* meters succeeds: no transfer is made, no billing record is written and
\* the provider's total_transactions does not change.
InactiveProviderTakesNoPayment ==
    [][(/\ last'.op = "pay_multi_utility_bill"
        /\ last'.meter_id \in DOMAIN meters
        /\ meters[last'.meter_id].provider_id \in DOMAIN providers
        /\ ~providers[meters[last'.meter_id].provider_id].is_active)
       => (/\ last'.result # "Ok"
           /\ balance' = balance
           /\ persistent' = persistent
           /\ providers' = providers)]_vars

\* The payment entry points that keep a total per meter id.
TotalOps == {"pay_bill", "pay_bill_with_oracle"}

\* What a step adds to the total of `meter_id` according to C39: the amount
\* transferred by a successful pay_bill or pay_bill_with_oracle for it.
PaidInStep(meter_id) ==
    IF last'.op \in TotalOps /\ last'.result = "Ok" /\ last'.meter_id = meter_id
    THEN balance[Payer] - balance'[Payer]
    ELSE 0

\* C39: get_total_paid(m) equals the sum of the amounts transferred by the
\* successful pay_bill and pay_bill_with_oracle calls for meter id m;
\* payments for other meter ids and payments through pay_utility_bill or
\* pay_multi_utility_bill do not change it.  Stated step by step: every
\* step adds to each total exactly what it transferred for that meter id.
TotalPaidSumsPlainPayments ==
    [][\A meter_id \in TotalMeters :
          get_total_paid(meter_id).some =>
              get_total_paid(meter_id)'
                = Some(get_total_paid(meter_id).v + PaidInStep(meter_id))]_vars

====
